---- MODULE Spec2Model ----
(***************************************************************************)
(* Job controller, splice and playlist server of the ad-insertion backend. *)
(*                                                                         *)
(*   dashboard/app/api/v1/videos/process.py   registry, worker, status     *)
(*   dashboard/app/api/v1/videos/playlist.py  get_playlist                 *)
(*   dashboard/app/api/v1/videos/segments.py  get_segment                  *)
(*   videos/main.py, Videos/process_video.py  placement + edit pipeline    *)
(*   videos/hls_converter.py                  convert_to_hls               *)
(*                                                                         *)
(* Scheduling.  Every handler and process_video_background are `async def` *)
(* coroutines of one event loop, and the worker contains no `await`: once  *)
(* it is started it keeps the loop until it returns.  A request handler    *)
(* therefore runs only while no worker is between its first and its last   *)
(* statement (LoopFree).  The worker is still modelled statement group by  *)
(* statement group, so that its intermediate states are states of the      *)
(* model.                                                                  *)
(*                                                                         *)
(* External calls (ffmpeg, moviepy, the oracle, the generation provider)   *)
(* either return or raise; what they return is chosen from bounded sets.   *)
(* Times are whole seconds; a timestamp string HH:MM:SS,mmm is a record.   *)
(***************************************************************************)
EXTENDS Integers, Sequences, FiniteSets, TLC

\* ------------------------------------------------------------------ bounds
\* largest number of .ts files ffmpeg writes for the original video
MaxSegments == 3
\* largest number of .ts files ffmpeg writes for the edited clip
MaxEdited == 2
\* latest buffer time (seconds) the placement oracle answers
MaxTime == 30

\* most cues in a subtitle file
MaxCues == 3
\* latest cue time in a subtitle file, in half seconds
MaxCueTime == 3
\* largest min_duration passed to find_gaps, in half seconds
MaxThreshold == 3

\* longest time one HTTP request to the provider takes, in units of 5 seconds
MaxRequestTime == 2

\* most candidates the oracle answers in the first pass of analyze_multipass
MaxCandidates == 2
\* the largest seconds field of a timestamp taken to seconds and back
MaxStampSeconds == 3
\* the largest millisecond field of such a timestamp (500 and 999 are added)
MaxMillis == 4
\* polling rounds of one generation that are told apart
MaxPolls == 1
\* the largest number of cues of a summarised transcript, and the largest cap
MaxSummaryCues == 12
MaxCap == 8
\* the largest number of tokens of an oracle response
MaxTokens == 4

\* -------------------------------------------------------- program constants
\* process.py:84, 120, 149  segment_duration
segment_duration == 10

JobIds == {"j1", "j2"}
Users == {"alice", "bob"}
Videos == {"show.mp4"}

\* buffer times the oracle can answer: a grid of five seconds
TimeStep == 5
Times == {t \in 0..MaxTime : t % TimeStep = 0}

\* ------------------------------------------------------------- dictionaries
\* d[k] = v on a Python dict: the key is added when it is missing
Put(d, k, v) == [x \in (DOMAIN d) \cup {k} |-> IF x = k THEN v ELSE d[x]]
\* d.get(k): truthiness of the entry (a missing key is None)
Has(d, k) == k \in DOMAIN d

\* --------------------------------------------------------------- timestamps
\* transcript_parser.seconds_to_timestamp for whole seconds
seconds_to_timestamp(sec) ==
    [hh |-> sec \div 3600, mm |-> (sec % 3600) \div 60, ss |-> sec % 60, ms |-> 0,
     parseable |-> TRUE]
\* transcript_parser.timestamp_to_seconds, in milliseconds
timestamp_to_seconds(ts) == (ts.hh * 3600 + ts.mm * 60 + ts.ss) * 1000 + ts.ms
\* a time the oracle wrote as plain seconds ("75.0"): extract_segment's
\* parse_time reads it, timestamp_to_seconds raises ValueError on it
PlainSeconds(sec) ==
    [hh |-> 0, mm |-> 0, ss |-> sec, ms |-> 0, parseable |-> FALSE]
\* extract_segment.parse_time, in milliseconds
parse_time(ts) == IF ts.parseable THEN timestamp_to_seconds(ts) ELSE ts.ss * 1000
\* int(seconds / segment_duration)
SegmentIndex(ms) == ms \div (segment_duration * 1000)

\* transcript_parser.py:290  int((seconds % 1) * 1000) where seconds is the
\* double hours * 3600 + minutes * 60 + seconds + ms / 1000 of line 304: the
\* IEEE-754 result is ms - 1 for the ms listed and ms for the others.  The
\* table holds the whole seconds hh:mm:ss with hh, mm in 0..1 and ss in 0..4,
\* and the ms in 0..6, 500 and 999.
TruncatedMillis(whole) ==
    CASE whole = 0 -> {}
      [] whole = 1 -> {1, 3, 5}
      [] whole \in 2..3 -> {1, 2, 5, 6}
      [] whole = 4 -> {2, 4, 5, 999}
      [] whole \in 60..63 -> {1, 4}
      [] whole = 64 -> {2, 5, 999}
      [] whole \in (3600..3604) \cup (3660..3664) -> {2, 4, 6, 999}
\* transcript_parser.py:286-292  seconds_to_timestamp of the float that
\* timestamp_to_seconds returned, given in milliseconds
seconds_to_timestamp_ms(x) ==
    LET whole == x \div 1000
        ms == x % 1000
    IN  [hh |-> whole \div 3600, mm |-> (whole % 3600) \div 60, ss |-> whole % 60,
         ms |-> IF ms \in TruncatedMillis(whole) THEN ms - 1 ELSE ms,
         parseable |-> TRUE]
\* well-formed timestamps HH:MM:SS,mmm
Millis == (0..MaxMillis) \cup {500, 999}
Stamps == [hh : 0..1, mm : 0..1, ss : 0..MaxStampSeconds, ms : Millis, parseable : {TRUE}]
NoStamp == [pc |-> "idle", s |-> seconds_to_timestamp(0), seconds |-> 0,
            back |-> seconds_to_timestamp(0)]

\* ------------------------------------------------------------ playlist lines
Tag(text) == [t |-> text, job |-> "", n |-> 0]
ExtInf(d) == [t |-> "#EXTINF", job |-> "", n |-> d]
\* a relative segment URI segment%03d.ts
FileLine(i) == [t |-> "file", job |-> "", n |-> i]
\* /api/v1/videos/segments/<job_id>/segment%03d.ts
ApiLine(j, i) == [t |-> "api", job |-> j, n |-> i]
IsSegmentLine(l) == l.t \in {"file", "api"}

RECURSIVE Concat(_)
Concat(ss) == IF ss = <<>> THEN <<>> ELSE Head(ss) \o Concat(Tail(ss))

\* the playlist ffmpeg writes for n segments (hls_playlist_type vod)
FfmpegPlaylist(n) ==
    << Tag("#EXTM3U"), Tag("#EXT-X-VERSION:3"), Tag("#EXT-X-TARGETDURATION"),
       Tag("#EXT-X-MEDIA-SEQUENCE:0"), Tag("#EXT-X-PLAYLIST-TYPE:VOD") >>
    \o Concat([i \in 1..n |-> << ExtInf(segment_duration), FileLine(i - 1) >>])
    \o << Tag("#EXT-X-ENDLIST") >>

\* ------------------------------------------------------------------- disk
\* a directory of segment files: index -> content
NoFiles == [i \in {} |-> 0]
Original(i) == <<"orig", i>>
\* segment000.ts .. of the original video, as ffmpeg writes them
OriginalFiles(n) == [i \in 0..(n - 1) |-> Original(i)]
Edited(i) == <<"edit", i>>

\* <out>/<job_id>/ before the worker has written anything
EmptyTree ==
    [original |-> NoFiles, original_m3u8 |-> <<>>,
     edited_mp4 |-> FALSE,
     edited_hls |-> NoFiles,
     segments_dir |-> FALSE, segments |-> NoFiles, segments_m3u8 |-> <<>>,
     playlist_temp |-> <<>>]

\* ------------------------------------------------------ transcript_parser.py
\* cue times are counted in half seconds
\* transcript_parser.py:46  min_gap_duration = 1.5
min_gap_duration == 3

\* transcript_parser.py:13-19  class SubtitleEntry
SubtitleEntry(index, start_time, end_time, text) ==
    [index |-> index, start_time |-> start_time, end_time |-> end_time, text |-> text]
\* transcript_parser.py:25-32  class DialogueGap
DialogueGap(start_time, end_time, duration, context_before, context_after) ==
    [start_time |-> start_time, end_time |-> end_time, duration |-> duration,
     context_before |-> context_before, context_after |-> context_after]

\* a subtitle file: its well-formed blocks in file order, each with the start
\* and end time of its timestamp line (a cue ends no earlier than it starts)
CueTimes == 0..MaxCueTime
Blocks == {b \in [start_time : CueTimes, end_time : CueTimes] : b.start_time <= b.end_time}
SubtitleFiles == UNION {[1..n -> Blocks] : n \in 0..MaxCues}
\* the min_duration values a caller passes to find_gaps
Thresholds == 0..MaxThreshold

\* sorted(entries, key=lambda e: e.start_time): stable, ascending
InsertByStart(sorted, e) ==
    LET k == Cardinality({x \in 1..Len(sorted) : sorted[x].start_time <= e.start_time})
    IN  SubSeq(sorted, 1, k) \o <<e>> \o SubSeq(sorted, k + 1, Len(sorted))
RECURSIVE SortByStart(_)
SortByStart(es) ==
    IF es = <<>> THEN <<>>
    ELSE InsertByStart(SortByStart(SubSeq(es, 1, Len(es) - 1)), es[Len(es)])

\* sorted(gaps, key=lambda g: g.duration, reverse=True): stable, descending
InsertByDuration(sorted, g) ==
    LET k == Cardinality({x \in 1..Len(sorted) : sorted[x].duration >= g.duration})
    IN  SubSeq(sorted, 1, k) \o <<g>> \o SubSeq(sorted, k + 1, Len(sorted))
RECURSIVE SortByDuration(_)
SortByDuration(gs) ==
    IF gs = <<>> THEN <<>>
    ELSE InsertByDuration(SortByDuration(SubSeq(gs, 1, Len(gs) - 1)), gs[Len(gs)])

\* transcript_parser.py:119-162  _parse_srt: one entry per block, sorted by start
\* time; the text of a block stands for itself (its position in the file)
ParsedEntries(file) ==
    SortByStart([k \in 1..Len(file) |->
                    SubtitleEntry(k, file[k].start_time, file[k].end_time, k)])

\* ' '.join of the texts of entries[lo..hi] (1-based, inclusive)
Context(entries, lo, hi) == [k \in 1..(hi - lo + 1) |-> entries[lo + k - 1].text]
Max(a, b) == IF a >= b THEN a ELSE b
Min(a, b) == IF a <= b THEN a ELSE b

\* transcript_parser.py:232-254  the loop of find_gaps from pair i on
\* (i is the 1-based position of `current`)
RECURSIVE GapsFrom(_, _, _)
GapsFrom(entries, i, min_duration) ==
    IF i >= Len(entries) THEN <<>>
    ELSE LET current == entries[i]
             next_entry == entries[i + 1]
             gap_duration == next_entry.start_time - current.end_time
         IN  (IF gap_duration >= min_duration
              THEN << DialogueGap(current.end_time, next_entry.start_time, gap_duration,
                                  Context(entries, Max(1, i - 2), i),
                                  Context(entries, i + 1, Min(Len(entries), i + 3))) >>
              ELSE <<>>)
             \o GapsFrom(entries, i + 1, min_duration)

\* a transcript of n cues, one a second; the text of a cue stands for itself
Entries(n) == [k \in 1..n |-> SubtitleEntry(k, 2 * k, 2 * k + 1, k)]
\* the line f"[{timestamp}] {entry.text}" of a cue
SummaryLine(entry) == [timestamp |-> entry.start_time, text |-> entry.text]
\* transcript_parser.py:259-265  get_full_transcript: one line per cue
get_full_transcript(entries) == [k \in 1..Len(entries) |-> SummaryLine(entries[k])]
\* the slice entries[::step]: the cues at 0, step, 2 * step, .. (0-based)
Stride(entries, step) ==
    [k \in 1..((Len(entries) + step - 1) \div step) |-> entries[(k - 1) * step + 1]]
\* the slice s[:n]
Take(s, n) == SubSeq(s, 1, Min(Len(s), n))
\* transcript_parser.py:276  step = len(self.entries) // max_entries
SummaryStep(n, max_entries) == n \div max_entries
\* transcript_parser.py:267-283  get_transcript_summary(max_entries)
TranscriptSummary(entries, max_entries) ==
    IF Len(entries) <= max_entries THEN get_full_transcript(entries)
    ELSE LET step == SummaryStep(Len(entries), max_entries)
             sampled == Take(Stride(entries, step), max_entries)
         IN  [k \in 1..Len(sampled) |-> SummaryLine(sampled[k])]
NoSummary == [pc |-> "idle", entries |-> <<>>, max_entries |-> 0, lines |-> <<>>]

\* ------------------------------------------------------------ grok_client.py
\* one call of a task method: the response chat returned, the number of chat
\* calls, the texts searched for a {...} substring, and the outcome
NoOracle == [pc |-> "idle", method |-> "", response |-> <<>>, chat_calls |-> 0,
             searched |-> <<>>, result |-> <<>>,
             exc |-> [kind |-> "", message |-> ""]]

\* transcript_parser.py:46-56  TranscriptParser()
NewParser ==
    [pc |-> "new", min_gap_duration |-> min_gap_duration, entries |-> <<>>,
     gaps |-> <<>>, min_duration |-> min_gap_duration]

\* ---------------------------------------------------------- ad_placement.py
\* the timestamp strings the oracle can answer for a time in seconds
OracleTimes == {seconds_to_timestamp(t) : t \in Times} \cup {PlainSeconds(t) : t \in Times}
\* a dict entry that may be missing (or empty): <<>> or <<value>>
Optional(S) == {<<>>} \cup {<<x>> : x \in S}
\* d.get(key) or fallback
GetOr(entry, fallback) == IF entry = <<>> THEN fallback ELSE entry[1]

\* ad_placement.py:79-80  buffer_before = 10, buffer_after = 3, and no buffer
BuffersBefore == {0, 10}
BuffersAfter == {0, 3}
\* the transcript a call is given: its number of cues and the end time of
\* the last one, in seconds
Transcripts == {[cues |-> 0, end_time |-> 0], [cues |-> 2, end_time |-> MaxTime]}

\* grok_client.py:140-151  the "placement" object of the oracle's answer
OraclePlacements ==
    [insertion_point : OracleTimes, buffer_start : Optional(OracleTimes),
     buffer_end : Optional(OracleTimes)]
\* ad_placement.py:232  a candidate of the first pass; it carries its own
\* buffer or none
Candidates ==
    [insertion_point : OracleTimes,
     buffer_start : {<<>>}, buffer_end : {<<>>}]
    \cup [insertion_point : OracleTimes,
          buffer_start : {<<seconds_to_timestamp(0)>>},
          buffer_end : {<<seconds_to_timestamp(MaxTime)>>}]
CandidateLists == UNION {[1..n -> Candidates] : n \in 0..MaxCandidates}
\* the selected_index the vision call can answer
SelectedIndexes == (0 - MaxCandidates - 1)..(MaxCandidates + 1)

\* ad_placement.py:135-141  the buffer of analyze around the oracle's placement p
AnalyzeBuffer(p, buffer_before, buffer_after) ==
    IF p.insertion_point.parseable
    THEN LET insertion_seconds == timestamp_to_seconds(p.insertion_point) \div 1000
         IN  [buffer_start |->
                  GetOr(p.buffer_start,
                        seconds_to_timestamp(IF insertion_seconds - buffer_before >= 0
                                             THEN insertion_seconds - buffer_before ELSE 0)),
              buffer_end |->
                  GetOr(p.buffer_end, seconds_to_timestamp(insertion_seconds + buffer_after))]
    ELSE [buffer_start |-> GetOr(p.buffer_start, seconds_to_timestamp(0)),
          buffer_end |-> GetOr(p.buffer_end, seconds_to_timestamp(13))]

\* ad_placement.py:290-297  the buffer of analyze_multipass around the
\* selected candidate
MultipassBuffer(selected, buffer_before, buffer_after) ==
    IF selected.insertion_point.parseable
    THEN LET insertion_seconds == timestamp_to_seconds(selected.insertion_point) \div 1000
         IN  [buffer_start |->
                  seconds_to_timestamp(IF insertion_seconds - buffer_before >= 0
                                       THEN insertion_seconds - buffer_before ELSE 0),
              buffer_end |-> seconds_to_timestamp(insertion_seconds + buffer_after)]
    ELSE [buffer_start |-> GetOr(selected.buffer_start, seconds_to_timestamp(0)),
          buffer_end |-> GetOr(selected.buffer_end, seconds_to_timestamp(13))]

NoExc == [kind |-> "", message |-> ""]
\* a temporary directory: tempfile.mkdtemp creates it, shutil.rmtree removes it
mkdtemp == "exists"
rmtree(temp_dir) == IF temp_dir = "exists" THEN "removed" ELSE temp_dir
\* the calls of analyze_multipass that can raise
MultipassCalls ==
    {"find_candidate_placements", "extract_frames_at_timestamps",
     "select_best_placement_from_frames"}

\* no call of the analyzer has been made.  pass1 tells whether the candidate
\* generation returned, candidates is len(candidates), picked the position
\* (from 1) of the candidate the placement is built from, frames the number
\* of frames extracted, vision_calls the number of vision calls made
NoAnalysis ==
    [pc |-> "idle", fn |-> "", insertion_point |-> seconds_to_timestamp(0),
     buffer_start |-> seconds_to_timestamp(0), buffer_end |-> seconds_to_timestamp(0),
     buffer_before |-> 0, buffer_after |-> 0, video_duration |-> 0,
     supplied |-> FALSE, pass1 |-> "none", candidates |-> 0, selected_index |-> 0,
     picked |-> 0, first |-> seconds_to_timestamp(0), temp_dir |-> "none",
     frames |-> 0, vision_calls |-> 0, exc |-> NoExc]

\* ------------------------------------------------------- process_video.py
\* no call of process_video has been made; temp_dir is the directory of
\* process_video (video_pipeline_), insert_temp_dir that of insert_segment
NoPipeline ==
    [pc |-> "idle", temp_dir |-> "none", insert_temp_dir |-> "none",
     output |-> FALSE, exc |-> NoExc]

\* ------------------------------------------------------------ analytics.py
\* a datetime is counted in milliseconds since the epoch
Datetimes == {1000, 1500, 2999}
\* int(dt.timestamp())
unix_ts(dt) == dt \div 1000
AdIds == {"ad1", "ad2"}
None == "None"
\* the Authorization header: absent, or a bearer token that jwt.decode rejects
\* or takes, with the "sub" of its payload (None when the payload has none);
\* a missing timestamp is <<>>, a given one <<dt>>
Credentials ==
    {[present |-> FALSE, decodes |-> FALSE, sub |-> None]}
    \cup [present : {TRUE}, decodes : {FALSE}, sub : {None}]
    \cup [present : {TRUE}, decodes : {TRUE}, sub : Users \cup {None, ""}]
\* analytics.py:17-78  the fields of an event the handlers read or write
Events == [ad_id : AdIds, user_id : Users \cup {None}, timestamp : Optional(Datetimes)]
\* analytics.py:99-103 ... 185-189  the prefix of each handler's event_id
Prefix ==
    [track_impression |-> "imp", track_click |-> "click", track_view |-> "view",
     track_conversion |-> "conv", track_dismissal |-> "dismiss"]
NoAnalytics ==
    [handler |-> "none", credentials |-> [present |-> FALSE, decodes |-> FALSE, sub |-> None],
     body |-> [ad_id |-> "ad1", user_id |-> None, timestamp |-> <<>>],
     event |-> [ad_id |-> "ad1", user_id |-> None, timestamp |-> <<>>],
     now |-> 0, json |-> <<>>]

\* ------------------------------------------------------ wavespeed_client.py
\* the clock of the generation client counts units of 5 seconds
\* wavespeed_client.py:115  poll_interval = 5.0
poll_interval == 1
\* wavespeed_client.py:116  timeout = 600.0
timeout == 120
\* wavespeed_client.py:180
max_consecutive_errors == 10

\* what one GET of the result URL can end in: an answer with a status code
\* other than 200, an exception of requests (network fault), or a 200 answer
\* whose data.status is one of the provider's task states
PollOutcomes == {"non200", "network", "queued", "processing", "completed", "failed"}
FailedPolls == {"non200", "network"}

\* generate_video has not been called
NoPolling ==
    [pc |-> "idle", clock |-> 0, elapsed |-> 0, consecutive_errors |-> 0,
     last |-> "none", streak |-> 0, slept |-> 0, terminal |-> FALSE,
     result |-> "", exc |-> NoExc]

\* the two copies of wavespeed_client.py and the hosts each tries, in order
\* videos/wavespeed_client.py:279-334, Videos/wavespeed_client.py:229-283
Copies == {"videos", "Videos"}
Hosts(copy) ==
    IF copy = "videos" THEN <<"catbox.moe", "0x0.st", "file.io">>
    ELSE <<"tmpfiles.org", "litterbox", "transfer.sh">>

\* what one upload request can end in: an exception, or a response with a
\* status code and a body that is a link (a URL, or JSON with success and a
\* link), some other text, or not what the host's branch can read
UploadAnswers ==
    [raised : {TRUE}, status_code : {0}, body : {"Timeout", "ConnectionError"}]
    \cup [raised : {FALSE}, status_code : {200, 500}, body : {"link", "text"}]

\* the condition under which a host's branch returns the URL
\* catbox.moe, litterbox: 200 and text.startswith('http')
\* 0x0.st, transfer.sh: 200
\* file.io: 200 and result.get('success'); tmpfiles.org: 200 and status success
Accepts(host, answer) ==
    /\ ~answer.raised
    /\ answer.status_code = 200
    /\ host \in {"0x0.st", "transfer.sh"} \/ answer.body = "link"

\* the entry a failed host leaves in errors: "<host>: <status> - <text>" or
\* "<host>: <str(e)>"
ErrorEntry(host, answer) ==
    [host |-> host, status_code |-> answer.status_code, detail |-> answer.body]

\* upload_to_temp_hosting has not been called
NoUpload ==
    [pc |-> "idle", copy |-> "", next |-> 0, contacted |-> <<>>, errors |-> <<>>,
     url |-> "", exc |-> NoExc, detail |-> <<>>]

VARIABLES
    processing_jobs,   \* process.py:28  job_id -> job dict
    disk,              \* job_id -> the job's output tree
    output_video,      \* video path -> job that last wrote <base>_output<ext>
    worker,            \* job_id -> position and locals of process_video_background
    stages,            \* job_id -> the stages the worker has run, in order
    resp,              \* the answer to the last request
    fresh,             \* the ids uuid4 has not handed out yet
    parser,            \* transcript_parser.py  a TranscriptParser object
    analysis,          \* ad_placement.py  one call of analyze / analyze_multipass
    polling,           \* wavespeed_client.py  one call of _poll_for_result
    upload,            \* wavespeed_client.py  one call of upload_to_temp_hosting
    stamp,             \* transcript_parser.py  one timestamp taken to seconds and back
    pipeline,          \* process_video.py  one call of process_video
    analytics,         \* analytics.py  the last analytics request: token, body, event, answer
    summary,           \* transcript_parser.py  one call of get_transcript_summary
    oracle             \* grok_client.py  one call of a task method of GrokClient

\* the job service, and the libraries the stages of a job call into
service == <<processing_jobs, disk, output_video, worker, stages, resp, fresh>>
library == <<parser, analysis, polling, upload, stamp, pipeline, analytics, summary, oracle>>
vars == <<service, library>>

\* worker positions at which the coroutine holds the event loop
Idle == {"none", "scheduled", "done"}
Running == {j \in JobIds : worker[j].pc \notin Idle}
\* variant: the worker runs in a thread beside the event loop
LoopFree_WorkerThread == TRUE
LoopFree == Running = {}

NoResult == [returned |-> FALSE, buffer_start |-> seconds_to_timestamp(0),
             buffer_end |-> seconds_to_timestamp(0), output_video |-> ""]
NoWorker == [pc |-> "none", exc |-> [kind |-> "", message |-> ""], result |-> NoResult,
             start |-> 0, end |-> 0, K |-> 0, polls |-> 0]

\* the coroutine has returned: its locals are gone
Returned == [NoWorker EXCEPT !.pc = "done"]

\* an HTTP answer: who asked what, the job status the handler saw ("unknown"
\* for an id that was not in the registry), the status code and the content
NoResp == [handler |-> "none", job |-> "", caller |-> "", seg |-> 0, seen |-> "",
           code |-> 0, json |-> <<>>, body |-> <<>>, file |-> <<>>]

\* process.py:28  the registry is empty when the application starts
ServiceInit ==
    /\ processing_jobs = [j \in {} |-> 0]
    /\ disk = [j \in JobIds |-> EmptyTree]
    /\ output_video = [v \in Videos |-> ""]
    /\ worker = [j \in JobIds |-> NoWorker]
    /\ stages = [j \in JobIds |-> <<>>]
    /\ resp = NoResp
    /\ fresh = {"j1"}

Init ==
    /\ ServiceInit
    /\ parser = NewParser
    /\ analysis = NoAnalysis
    /\ polling = NoPolling
    /\ upload = NoUpload
    /\ stamp = NoStamp
    /\ pipeline = NoPipeline
    /\ analytics = NoAnalytics
    /\ summary = NoSummary
    /\ oracle = NoOracle

\* ------------------------------------------------------------- the worker
Job(j) == processing_jobs[j]
SetJob(j, d) == [processing_jobs EXCEPT ![j] = d]
Goto(j, pc) == [worker EXCEPT ![j].pc = pc]
Log(j, stage) == [stages EXCEPT ![j] = Append(@, stage)]

\* variant: the job id is derived from the video path, so that a second
\* submission of a video takes the id of the first
start_video_processing_KeyedByVideo(u, v) ==
    /\ LoopFree
    /\ \E j \in JobIds :
        /\ IF \E x \in DOMAIN processing_jobs : processing_jobs[x].video_path = v
           THEN j \in DOMAIN processing_jobs /\ processing_jobs[j].video_path = v
           ELSE j \in fresh
        /\ fresh' = fresh \ {j}
        /\ processing_jobs' =
              [x \in (DOMAIN processing_jobs) \cup {j} |->
                  IF x = j
                  THEN [status |-> "queued", progress |-> 0, video_path |-> v,
                        user_id |-> u]
                  ELSE processing_jobs[x]]
        /\ worker' = Goto(j, "scheduled")
        /\ resp' = [NoResp EXCEPT !.handler = "start_video_processing", !.job = j,
                       !.caller = u, !.seen = "queued", !.code = 200,
                       !.json = [job_id |-> j, status |-> "queued", playlist_url |-> j]]
    /\ UNCHANGED <<disk, output_video, stages, library>>

\* process.py:212-263
start_video_processing(u, v) ==
    /\ LoopFree
    /\ \E j \in fresh :
        /\ fresh' = fresh \ {j}
        /\ processing_jobs' =
              [x \in (DOMAIN processing_jobs) \cup {j} |->
                  IF x = j
                  THEN [status |-> "queued", progress |-> 0, video_path |-> v,
                        user_id |-> u]
                  ELSE processing_jobs[x]]
        /\ worker' = Goto(j, "scheduled")
        /\ resp' = [NoResp EXCEPT !.handler = "start_video_processing", !.job = j,
                       !.caller = u, !.seen = "queued", !.code = 200,
                       !.json = [job_id |-> j, status |-> "queued", playlist_url |-> j]]
    /\ UNCHANGED <<disk, output_video, stages, library>>

\* process.py:72-75  the background task takes the event loop; the answers
\* given before have been delivered
Begin(j) ==
    /\ LoopFree
    /\ worker[j].pc = "scheduled"
    /\ processing_jobs' = SetJob(j, Put(Put(Job(j), "status", "processing"), "progress", 10))
    /\ worker' = Goto(j, "check_original")
    /\ resp' = NoResp
    /\ UNCHANGED <<disk, output_video, stages, fresh, library>>

\* an exception object: its class and its message
Exc(kind, message) == [kind |-> kind, message |-> message]
RaiseExc(j, e) == [worker EXCEPT ![j].pc = "except", ![j].exc = e]

\* variant: the post-segmentation progress is published before the conversion
CheckOriginal_PublishesEarly(j) ==
    /\ worker[j].pc = "check_original"
    /\ IF disk[j].original_m3u8 = <<>>
       THEN /\ processing_jobs' = SetJob(j, Put(Job(j), "progress", 30))
            /\ worker' = Goto(j, "convert_original")
       ELSE /\ worker' = Goto(j, "post_hls")
            /\ UNCHANGED processing_jobs
    /\ UNCHANGED <<disk, output_video, stages, resp, fresh, library>>

\* process.py:77-80  the original playlist is looked up in the job's tree
CheckOriginal(j) ==
    /\ worker[j].pc = "check_original"
    /\ IF disk[j].original_m3u8 = <<>>
       THEN /\ processing_jobs' = SetJob(j, Put(Job(j), "progress", 20))
            /\ worker' = Goto(j, "convert_original")
       ELSE /\ worker' = Goto(j, "post_hls")
            /\ UNCHANGED processing_jobs
    /\ UNCHANGED <<disk, output_video, stages, resp, fresh, library>>

\* hls_converter.py:15-107  what convert_to_hls leaves in a directory
convert_to_hls_result(n) == [segment_count |-> n, segment_duration |-> segment_duration]

\* process.py:81-86  stage 1, segment the original video
ConvertOriginal(j) ==
    /\ worker[j].pc = "convert_original"
    /\ stages' = Log(j, "segment_original")
    /\ \/ \E n \in 1..MaxSegments :
            /\ disk' = [disk EXCEPT ![j].original = OriginalFiles(n),
                                    ![j].original_m3u8 = FfmpegPlaylist(n)]
            /\ processing_jobs' = SetJob(j, Put(Job(j), "hls_info", convert_to_hls_result(n)))
            /\ worker' = Goto(j, "post_hls")
       \/ /\ worker' = RaiseExc(j, Exc("RuntimeError", "Failed to convert video to HLS"))
          /\ UNCHANGED <<disk, processing_jobs>>
    /\ UNCHANGED <<output_video, resp, fresh, library>>

\* process.py:88
PostHls(j) ==
    /\ worker[j].pc = "post_hls"
    /\ processing_jobs' = SetJob(j, Put(Job(j), "progress", 30))
    /\ worker' = Goto(j, "pre_placement")
    /\ UNCHANGED <<disk, output_video, stages, resp, fresh, library>>

\* process.py:90-100
PrePlacement(j) ==
    /\ worker[j].pc = "pre_placement"
    /\ processing_jobs' = SetJob(j, Put(Job(j), "progress", 40))
    /\ worker' = Goto(j, "find_placement")
    /\ UNCHANGED <<disk, output_video, stages, resp, fresh, library>>

\* main.py:195-196  stage 2, find_ad_placement: the oracle answers a placement
\* (main.py:49-64) or the call raises
FindAdPlacement(j) ==
    /\ worker[j].pc = "find_placement"
    /\ stages' = Log(j, "placement")
    /\ \/ \E s \in OracleTimes, e \in OracleTimes :
            /\ s.parseable = e.parseable
            /\ worker' = [worker EXCEPT ![j].pc = "extract",
                             ![j].result = [returned |-> FALSE, buffer_start |-> s,
                                            buffer_end |-> e, output_video |-> ""]]
       \/ worker' = RaiseExc(j, Exc("ValueError", "No subtitle entries found"))
    /\ UNCHANGED <<processing_jobs, disk, output_video, resp, fresh, library>>

\* extract_segment.py:79-87  the times extract_segment accepts
ValidRange(s, e) == parse_time(s) >= 0 /\ parse_time(e) > parse_time(s)

\* variant: the extracted clip is put back without being edited
ExtractBuffer_SkipsGenerate(j) ==
    /\ worker[j].pc = "extract"
    /\ stages' = Log(j, "extract")
    /\ LET r == worker[j].result IN
       \/ /\ ValidRange(r.buffer_start, r.buffer_end)
          /\ worker' = Goto(j, "insert")
       \/ /\ ~ValidRange(r.buffer_start, r.buffer_end)
          /\ worker' = RaiseExc(j, Exc("ValueError", "End time must be greater than start time"))
    /\ UNCHANGED <<processing_jobs, disk, output_video, resp, fresh, library>>

\* process_video.py:92-96  stage 3, extract the buffer clip
ExtractBuffer(j) ==
    /\ worker[j].pc = "extract"
    /\ stages' = Log(j, "extract")
    /\ LET r == worker[j].result IN
       \/ /\ ValidRange(r.buffer_start, r.buffer_end)
          /\ worker' = Goto(j, "generate")
       \/ /\ ~ValidRange(r.buffer_start, r.buffer_end)
          /\ worker' = RaiseExc(j, Exc("ValueError", "End time must be greater than start time"))
       \/ worker' = RaiseExc(j, Exc("ValueError", "Start time exceeds video duration"))
    /\ UNCHANGED <<processing_jobs, disk, output_video, resp, fresh, library>>

\* Videos/wavespeed_client.py:158-184  one round of the polling loop of
\* generate_video: the provider answers 200 with a status that is neither
\* completed nor failed, the loop sleeps and polls again. The rounds are
\* counted modulo MaxPolls + 1
GenerateVideoPoll(j) ==
    /\ worker[j].pc = "generate"
    /\ worker' = [worker EXCEPT ![j].polls = (@ + 1) % (MaxPolls + 1)]
    /\ UNCHANGED <<processing_jobs, disk, output_video, stages, resp, fresh, library>>

\* process_video.py:98-109  stage 4, edit_segment: generate the edited clip.
\* The generation returns the clip or raises (the provider reports completed
\* or failed, a poll is refused, or the client that has a timeout gives up)
EditSegment(j) ==
    /\ worker[j].pc = "generate"
    /\ stages' = Log(j, "generate")
    /\ \/ worker' = [worker EXCEPT ![j].pc = "insert", ![j].polls = 0]
       \/ worker' = [RaiseExc(j, Exc("TimeoutError", "Video generation timed out"))
                        EXCEPT ![j].polls = 0]
    /\ UNCHANGED <<processing_jobs, disk, output_video, resp, fresh, library>>

\* process_video.py:71-75  <base>_output<ext> of the submitted video path
OutputPath(v) == <<v, "_output">>

\* process_video.py:111-122, main.py:248-251  the edited clip is put back into
\* the whole video, written to OutputPath, and process_ad_placement returns
InsertSegment(j) ==
    /\ worker[j].pc = "insert"
    /\ stages' = Log(j, "insert")
    /\ \/ /\ output_video' = [output_video EXCEPT ![Job(j).video_path] = j]
          /\ worker' = [worker EXCEPT ![j].pc = "post_placement",
                                      ![j].result.returned = TRUE,
                                      ![j].result.output_video = OutputPath(Job(j).video_path)]
       \/ /\ worker' = RaiseExc(j, Exc("RuntimeError", "ffmpeg concat failed"))
          /\ UNCHANGED output_video
    /\ UNCHANGED <<processing_jobs, disk, resp, fresh, library>>

\* process.py:107-108
PostPlacement(j) ==
    /\ worker[j].pc = "post_placement"
    /\ processing_jobs' =
          SetJob(j, Put(Put(Job(j), "progress", 60), "placement", worker[j].result))
    /\ worker' = Goto(j, "compute_range")
    /\ UNCHANGED <<disk, output_video, stages, resp, fresh, library>>

\* process.py:122-123
start_segment_of(placement) == SegmentIndex(timestamp_to_seconds(placement.buffer_start))
end_segment_of(placement) == SegmentIndex(timestamp_to_seconds(placement.buffer_end)) + 1

\* process.py:110-130
ComputeRange(j) ==
    /\ worker[j].pc = "compute_range"
    /\ LET r == worker[j].result IN
       IF r.buffer_start.parseable /\ r.buffer_end.parseable
       THEN /\ processing_jobs' =
                 SetJob(j, Put(Put(Job(j), "progress", 70), "edited_segments",
                               [start |-> start_segment_of(r), end |-> end_segment_of(r),
                                edited_video_path |-> r.output_video]))
            /\ worker' = [worker EXCEPT ![j].pc = "extract_edited",
                                        ![j].start = start_segment_of(r),
                                        ![j].end = end_segment_of(r)]
       ELSE /\ worker' = RaiseExc(j, Exc("ValueError", "Unable to parse timestamp"))
            /\ UNCHANGED processing_jobs
    /\ UNCHANGED <<disk, output_video, stages, resp, fresh, library>>

\* process.py:132-142  the buffer range is cut out of the output video
ExtractEdited(j) ==
    /\ worker[j].pc = "extract_edited"
    /\ stages' = Log(j, "extract_edited")
    /\ \/ /\ disk' = [disk EXCEPT ![j].edited_mp4 = TRUE]
          /\ worker' = Goto(j, "convert_edited")
       \/ /\ worker' = RaiseExc(j, Exc("ValueError", "Start time exceeds video duration"))
          /\ UNCHANGED disk
    /\ UNCHANGED <<processing_jobs, output_video, resp, fresh, library>>

\* the edited clip can only come out equal to the original range when the
\* range lies inside the original and has the clip's segment count
CanBeUnchanged(j, k) ==
    /\ Has(Job(j), "hls_info")
    /\ worker[j].end <= Job(j).hls_info.segment_count
    /\ k = worker[j].end - worker[j].start

\* process.py:144-150  stage 5, segment the edited clip
ConvertEdited(j) ==
    /\ worker[j].pc = "convert_edited"
    /\ stages' = Log(j, "segment_edited")
    /\ \/ \E k \in 1..MaxEdited, unchanged \in BOOLEAN :
            /\ unchanged => CanBeUnchanged(j, k)
            /\ disk' = [disk EXCEPT
                  ![j].edited_hls =
                      [i \in 0..(k - 1) |->
                          IF unchanged THEN Original(worker[j].start + i) ELSE Edited(i)]]
            /\ worker' = [worker EXCEPT ![j].pc = "splice", ![j].K = k]
       \/ /\ worker' = RaiseExc(j, Exc("RuntimeError", "Failed to convert video to HLS"))
          /\ UNCHANGED disk
    /\ UNCHANGED <<processing_jobs, output_video, resp, fresh, library>>

\* shutil.copy2 of src[i] to dst[k], guarded by os.path.exists(src)
CopyIfExists(dst, k, src, i) ==
    IF i \in DOMAIN src THEN [x \in (DOMAIN dst) \cup {k} |-> IF x = k THEN src[i] ELSE dst[x]]
    ELSE dst

\* for i in lo..hi-1: copy src[i] to dst[shift + i]
RECURSIVE CopyRange(_, _, _, _, _)
CopyRange(dst, src, lo, hi, shift) ==
    IF lo >= hi THEN dst
    ELSE CopyRange(CopyIfExists(dst, shift + lo, src, lo), src, lo + 1, hi, shift)

\* process.py:163-192  the three copy loops
MergedFiles(segs, O, E, a, b, N, K) ==
    LET before == CopyRange(segs, O, 0, a, 0)
        edited == CopyRange(before, E, 0, K, a)
        new_end_segment == a + K
    IN  CopyRange(edited, O, b, N, new_end_segment - b)

\* process.py:195-197
MergedCount(a, b, N, K) == a + K + (N - b)

\* process.py:152-197  stage 6, splice into segments/
Splice(j) ==
    /\ worker[j].pc = "splice"
    /\ stages' = Log(j, "splice")
    /\ IF Has(Job(j), "hls_info")
       THEN LET total_segments == Job(j).hls_info.segment_count
                a == worker[j].start
                b == worker[j].end
                K == worker[j].K
            IN  /\ disk' = [disk EXCEPT
                      ![j].segments_dir = TRUE,
                      ![j].segments = MergedFiles(@, disk[j].original, disk[j].edited_hls,
                                                  a, b, total_segments, K)]
                /\ processing_jobs' =
                      SetJob(j, Put(Job(j), "hls_info",
                                    Put(Job(j).hls_info, "segment_count",
                                        MergedCount(a, b, total_segments, K))))
                /\ worker' = Goto(j, "pre_complete")
       ELSE /\ disk' = [disk EXCEPT ![j].segments_dir = TRUE]
            /\ worker' = RaiseExc(j, Exc("KeyError", "hls_info"))
            /\ UNCHANGED processing_jobs
    /\ UNCHANGED <<output_video, resp, fresh, library>>

\* process.py:199
PreComplete(j) ==
    /\ worker[j].pc = "pre_complete"
    /\ processing_jobs' = SetJob(j, Put(Job(j), "progress", 90))
    /\ worker' = Goto(j, "complete")
    /\ UNCHANGED <<disk, output_video, stages, resp, fresh, library>>

\* variant: the statement after the status assignment raises inside the try
Complete_ThenRaises(j) ==
    /\ worker[j].pc = "complete"
    /\ processing_jobs' = SetJob(j, Put(Put(Job(j), "status", "completed"), "progress", 100))
    /\ worker' = RaiseExc(j, Exc("TypeError", "hls_info"))
    /\ UNCHANGED <<disk, output_video, stages, resp, fresh, library>>

\* process.py:202  processing_jobs[job_id]["status"] = "completed"
Complete(j) ==
    /\ worker[j].pc = "complete"
    /\ processing_jobs' = SetJob(j, Put(Job(j), "status", "completed"))
    /\ worker' = Goto(j, "complete_progress")
    /\ UNCHANGED <<disk, output_video, stages, resp, fresh, library>>

\* process.py:203  processing_jobs[job_id]["progress"] = 100
CompleteProgress(j) ==
    /\ worker[j].pc = "complete_progress"
    /\ processing_jobs' = SetJob(j, Put(Job(j), "progress", 100))
    /\ worker' = Goto(j, "completed_at")
    /\ UNCHANGED <<disk, output_video, stages, resp, fresh, library>>

\* process.py:204  processing_jobs[job_id]["completed_at"] = ..., and the
\* coroutine returns
CompletedAt(j) ==
    /\ worker[j].pc = "completed_at"
    /\ processing_jobs' = SetJob(j, Put(Job(j), "completed_at", "now"))
    /\ worker' = [worker EXCEPT ![j] = Returned]
    /\ UNCHANGED <<disk, output_video, stages, resp, fresh, library>>

\* str(e)
str(e) == e.message

\* variant: the except clause does not store the error
Except_DropsError(j) ==
    /\ worker[j].pc = "except"
    /\ processing_jobs' = SetJob(j, Put(Job(j), "status", "failed"))
    /\ worker' = [worker EXCEPT ![j] = Returned]
    /\ UNCHANGED <<disk, output_video, stages, resp, fresh, library>>

\* variant: the except clause starts the pipeline again
Except_Retries(j) ==
    /\ worker[j].pc = "except"
    /\ processing_jobs' =
          SetJob(j, Put(Put(Job(j), "status", "failed"), "error", str(worker[j].exc)))
    /\ worker' = [worker EXCEPT ![j] = [NoWorker EXCEPT !.pc = "convert_original"]]
    /\ UNCHANGED <<disk, output_video, stages, resp, fresh, library>>

\* process.py:206-207  the except clause: processing_jobs[job_id]["status"] =
\* "failed"
Except(j) ==
    /\ worker[j].pc = "except"
    /\ processing_jobs' = SetJob(j, Put(Job(j), "status", "failed"))
    /\ worker' = Goto(j, "except_error")
    /\ UNCHANGED <<disk, output_video, stages, resp, fresh, library>>

\* process.py:208-209  processing_jobs[job_id]["error"] = str(e), and the
\* coroutine returns
ExceptError(j) ==
    /\ worker[j].pc = "except_error"
    /\ processing_jobs' = SetJob(j, Put(Job(j), "error", str(worker[j].exc)))
    /\ worker' = [worker EXCEPT ![j] = Returned]
    /\ UNCHANGED <<disk, output_video, stages, resp, fresh, library>>

\* ------------------------------------------------------- request handlers
Seen(j) == IF j \in DOMAIN processing_jobs THEN Job(j).status ELSE "unknown"
Request(handler, j, u) ==
    [NoResp EXCEPT !.handler = handler, !.job = j, !.caller = u, !.seen = Seen(j)]
HTTPException(r, status_code) == [r EXCEPT !.code = status_code]

\* variant: the owner is not compared with the caller
AccessCheck_NoOwner(j, u) == IF j \notin DOMAIN processing_jobs THEN 404 ELSE 0

\* process.py:282-289, playlist.py:29-36, segments.py:29-36
\* 0 when the request passes the registry and ownership checks
AccessCheck(j, u) ==
    IF j \notin DOMAIN processing_jobs THEN 404
    ELSE IF Job(j).user_id # u THEN 403
    ELSE 0

\* process.py:291-305
StatusBody(j) ==
    LET job == Job(j)
        base == [status |-> job.status, progress |-> job.progress, playlist_url |-> j]
        with_error == IF job.status = "failed"
                      THEN Put(base, "error",
                               IF Has(job, "error") THEN job.error ELSE "Unknown error")
                      ELSE base
    IN  IF job.status = "completed"
        THEN Put(with_error, "completed_at",
                 IF Has(job, "completed_at") THEN job.completed_at ELSE "None")
        ELSE with_error

\* process.py:266-305
get_processing_status(j, u) ==
    /\ LoopFree
    /\ resp' = IF AccessCheck(j, u) # 0
               THEN HTTPException(Request("get_processing_status", j, u), AccessCheck(j, u))
               ELSE [Request("get_processing_status", j, u) EXCEPT
                        !.code = 200, !.json = StatusBody(j)]
    /\ UNCHANGED <<processing_jobs, disk, output_video, worker, stages, fresh, library>>

\* variant: the status is not looked at
ServesMerged_IgnoresStatus(job) == Has(job, "edited_segments")

\* playlist.py:41, segments.py:41  the merged directory is the one to serve
ServesMerged(job) == job.status = "completed" /\ Has(job, "edited_segments")

\* playlist.py:121-130  the segment lines of the generated playlist
RECURSIVE SegmentLines(_, _, _, _, _)
SegmentLines(j, segs, i, segment_count, target_duration) ==
    IF i >= segment_count THEN <<>>
    ELSE (IF i \in DOMAIN segs THEN << ExtInf(target_duration), ApiLine(j, i) >> ELSE <<>>)
         \o SegmentLines(j, segs, i + 1, segment_count, target_duration)

\* variant: every index below segment_count is listed, on disk or not
generate_updated_playlist_AllIndices(job, tree, j) ==
    LET segment_count == IF Has(job, "hls_info") THEN job.hls_info.segment_count ELSE 0
    IN  << Tag("#EXTM3U"), Tag("#EXT-X-VERSION:3"), Tag("#EXT-X-TARGETDURATION"),
           Tag("#EXT-X-MEDIA-SEQUENCE:0") >>
        \o Concat([i \in 1..segment_count |-> << ExtInf(10), ApiLine(j, i - 1) >>])
        \o << Tag("#EXT-X-ENDLIST") >>

\* playlist.py:89-139  the content written to segments/playlist.m3u8
generate_updated_playlist(job, tree, j) ==
    LET segment_count == IF Has(job, "hls_info") THEN job.hls_info.segment_count ELSE 0
        target_duration == IF Has(job, "hls_info") THEN job.hls_info.segment_duration ELSE 10
    IN  << Tag("#EXTM3U"), Tag("#EXT-X-VERSION:3"), Tag("#EXT-X-TARGETDURATION"),
           Tag("#EXT-X-MEDIA-SEQUENCE:0") >>
        \o SegmentLines(j, tree.segments, 0, segment_count, target_duration)
        \o << Tag("#EXT-X-ENDLIST") >>

\* variant: the loop has no else branch, only the rewritten URIs are kept
RewriteLines_SegmentsOnly(lines, j) ==
    LET IsFile(l) == l.t = "file"
        files == SelectSeq(lines, IsFile)
    IN  [k \in 1..Len(files) |-> ApiLine(j, files[k].n)]

\* playlist.py:64-72  the segment URIs are routed through the segment endpoint
RewriteLines(lines, j) ==
    [k \in 1..Len(lines) |-> IF lines[k].t = "file" THEN ApiLine(j, lines[k].n) ELSE lines[k]]

\* variant: the path of the generated playlist is kept in the job record
get_playlist_RecordsPlaylist(j, u) ==
    /\ LoopFree
    /\ LET r == Request("get_playlist", j, u) IN
       IF AccessCheck(j, u) # 0
       THEN /\ resp' = HTTPException(r, AccessCheck(j, u))
            /\ UNCHANGED <<disk, processing_jobs>>
       ELSE IF ServesMerged(Job(j))
       THEN LET content == IF disk[j].segments_m3u8 = <<>>
                           THEN generate_updated_playlist(Job(j), disk[j], j)
                           ELSE disk[j].segments_m3u8
            IN  /\ disk' = [disk EXCEPT ![j].segments_dir = TRUE,
                                        ![j].segments_m3u8 = content]
                /\ processing_jobs' = SetJob(j, Put(Job(j), "playlist_path", "segments"))
                /\ resp' = [r EXCEPT !.code = 200, !.body = content]
       ELSE IF disk[j].original_m3u8 = <<>>
       THEN /\ resp' = HTTPException(r, 404)
            /\ UNCHANGED <<disk, processing_jobs>>
       ELSE LET content == RewriteLines(disk[j].original_m3u8, j)
            IN  /\ disk' = [disk EXCEPT ![j].playlist_temp = content]
                /\ resp' = [r EXCEPT !.code = 200, !.body = content]
                /\ UNCHANGED processing_jobs
    /\ UNCHANGED <<output_video, worker, stages, fresh, library>>

\* playlist.py:17-86
get_playlist(j, u) ==
    /\ LoopFree
    /\ LET r == Request("get_playlist", j, u) IN
       IF AccessCheck(j, u) # 0
       THEN /\ resp' = HTTPException(r, AccessCheck(j, u))
            /\ UNCHANGED disk
       ELSE IF ServesMerged(Job(j))
       THEN LET content == IF disk[j].segments_m3u8 = <<>>
                           THEN generate_updated_playlist(Job(j), disk[j], j)
                           ELSE disk[j].segments_m3u8
            IN  /\ disk' = [disk EXCEPT ![j].segments_dir = TRUE,
                                        ![j].segments_m3u8 = content]
                /\ resp' = [r EXCEPT !.code = 200, !.body = content]
       ELSE IF disk[j].original_m3u8 = <<>>
       THEN /\ resp' = HTTPException(r, 404)
            /\ UNCHANGED disk
       ELSE LET content == RewriteLines(disk[j].original_m3u8, j)
            IN  /\ disk' = [disk EXCEPT ![j].playlist_temp = content]
                /\ resp' = [r EXCEPT !.code = 200, !.body = content]
    /\ UNCHANGED <<processing_jobs, output_video, worker, stages, fresh, library>>

\* variant: segments are always read from original/
SegmentsDir_AlwaysOriginal(j) == disk[j].original

\* variant: the merged directory is read as soon as an edited range is recorded
SegmentsDir_OnceEdited(j) ==
    IF Has(Job(j), "edited_segments") THEN disk[j].segments ELSE disk[j].original

\* segments.py:40-46  the directory get_segment reads
SegmentsDir(j) ==
    IF ServesMerged(Job(j)) THEN disk[j].segments ELSE disk[j].original

\* the segment names a client asks for: segment000.ts ..
SegmentNames == 0..(MaxTime \div segment_duration + MaxEdited)

\* segments.py:16-61
get_segment(j, i, u) ==
    /\ LoopFree
    /\ LET r == [Request("get_segment", j, u) EXCEPT !.seg = i] IN
       resp' = IF AccessCheck(j, u) # 0 THEN HTTPException(r, AccessCheck(j, u))
               ELSE IF i \notin DOMAIN SegmentsDir(j) THEN HTTPException(r, 404)
               ELSE [r EXCEPT !.code = 200, !.file = SegmentsDir(j)[i]]
    /\ UNCHANGED <<processing_jobs, disk, output_video, worker, stages, fresh, library>>

Worker(j) ==
    \/ Begin(j)
    \/ CheckOriginal(j)
    \/ ConvertOriginal(j)
    \/ PostHls(j)
    \/ PrePlacement(j)
    \/ FindAdPlacement(j)
    \/ ExtractBuffer(j)
    \/ GenerateVideoPoll(j)
    \/ EditSegment(j)
    \/ InsertSegment(j)
    \/ PostPlacement(j)
    \/ ComputeRange(j)
    \/ ExtractEdited(j)
    \/ ConvertEdited(j)
    \/ Splice(j)
    \/ PreComplete(j)
    \/ Complete(j)
    \/ CompleteProgress(j)
    \/ CompletedAt(j)
    \/ Except(j)
    \/ ExceptError(j)

Next ==
    \/ \E u \in Users, v \in Videos : start_video_processing(u, v)
    \/ \E j \in JobIds : Worker(j)
    \/ \E j \in JobIds, u \in Users : get_processing_status(j, u)
    \/ \E j \in JobIds, u \in Users : get_playlist(j, u)
    \/ \E j \in JobIds, u \in Users, i \in SegmentNames : get_segment(j, i, u)

Spec == Init /\ [][Next]_vars

\* a scheduled background task is started, and a started coroutine runs on:
\* each of its statements and each external call returns or raises
SpecFair == Spec /\ \A j \in JobIds : WF_vars(Worker(j))

\* ------------------------------------------------------ two submissions
\* the application starts with two ids left for uuid4 to hand out
InitTwoJobs ==
    /\ processing_jobs = [j \in {} |-> 0]
    /\ disk = [j \in JobIds |-> EmptyTree]
    /\ output_video = [v \in Videos |-> ""]
    /\ worker = [j \in JobIds |-> NoWorker]
    /\ stages = [j \in JobIds |-> <<>>]
    /\ resp = NoResp
    /\ fresh = JobIds
    /\ parser = NewParser
    /\ analysis = NoAnalysis
    /\ polling = NoPolling
    /\ upload = NoUpload
    /\ stamp = NoStamp
    /\ pipeline = NoPipeline
    /\ analytics = NoAnalytics
    /\ summary = NoSummary
    /\ oracle = NoOracle

\* submissions and the worker of the first one; a behaviour ends with the
\* second submission
NextTwoJobs ==
    \/ \E u \in Users, v \in Videos : start_video_processing(u, v)
    \/ \E j \in JobIds : Cardinality(DOMAIN processing_jobs) = 1 /\ Worker(j)

SpecTwoJobs == InitTwoJobs /\ [][NextTwoJobs]_vars

\* ---------------------------------------------------- TranscriptParser
\* transcript_parser.py:100-117  parse_file on a parser that has parsed nothing
parse_file ==
    /\ parser.pc = "new"
    /\ \E file \in SubtitleFiles :
          parser' = [parser EXCEPT !.pc = "parsed", !.entries = ParsedEntries(file)]
    /\ UNCHANGED <<service, analysis, polling, upload, stamp, pipeline, analytics, summary, oracle>>

\* variant: the gaps are returned in the order of the cues
find_gaps_Unsorted(given, value) ==
    /\ parser.pc \in {"parsed", "gaps"}
    /\ LET min_duration == IF given THEN value ELSE parser.min_gap_duration
       IN  parser' = [parser EXCEPT !.pc = "gaps", !.min_duration = min_duration,
                         !.gaps = GapsFrom(parser.entries, 1, min_duration)]
    /\ UNCHANGED <<service, analysis, polling, upload, stamp, pipeline, analytics, summary, oracle>>

\* transcript_parser.py:218-257  find_gaps(min_duration); `given` is FALSE when
\* the argument is left None
find_gaps(given, value) ==
    /\ parser.pc \in {"parsed", "gaps"}
    /\ LET min_duration == IF given THEN value ELSE parser.min_gap_duration
       IN  parser' = [parser EXCEPT !.pc = "gaps", !.min_duration = min_duration,
                         !.gaps = SortByDuration(GapsFrom(parser.entries, 1, min_duration))]
    /\ UNCHANGED <<service, analysis, polling, upload, stamp, pipeline, analytics, summary, oracle>>

NextParser ==
    \/ parse_file
    \/ \E given \in BOOLEAN, value \in Thresholds : find_gaps(given, value)

SpecParser == Init /\ [][NextParser]_vars

\* ------------------------------------------------------ WaveSpeedClient
\* Fields of `polling` beside the locals of the code: clock is time.time() -
\* start_time now; last is the outcome of the latest poll, streak the number
\* of polls in a row that ended in FailedPolls, slept the time.sleep that
\* followed the latest poll, terminal whether a poll has reported completed
\* or failed.

\* wavespeed_client.py:154-166  generate_video: the clock starts, the task is
\* submitted, and _poll_for_result is entered unless the POST is refused
generate_video(ok, d) ==
    /\ polling.pc = "idle"
    /\ polling' = IF ok
                  THEN [polling EXCEPT !.pc = "loop", !.clock = d]
                  ELSE [polling EXCEPT !.pc = "raised", !.clock = d,
                           !.exc = Exc("RuntimeError", "WaveSpeed API error")]
    /\ UNCHANGED <<service, parser, analysis, upload, stamp, pipeline, analytics, summary, oracle>>

\* variant: the timeout is raised inside the try block of the loop
CheckTimeout_InsideTry ==
    /\ polling.pc = "loop"
    /\ LET elapsed == polling.clock
           errors == polling.consecutive_errors + 1
       IN  polling' =
              IF elapsed > timeout
              THEN IF errors >= max_consecutive_errors
                   THEN [polling EXCEPT !.pc = "raised", !.elapsed = elapsed,
                            !.consecutive_errors = errors,
                            !.exc = Exc("RuntimeError", "Connection failed after retries")]
                   ELSE [polling EXCEPT !.elapsed = elapsed, !.consecutive_errors = errors,
                            !.clock = @ + poll_interval * 2]
              ELSE [polling EXCEPT !.pc = "request", !.elapsed = elapsed]
    /\ UNCHANGED <<service, parser, analysis, upload, stamp, pipeline, analytics, summary, oracle>>

\* wavespeed_client.py:184-191  top of the loop: the elapsed time is read and
\* compared with the timeout, outside the try block; otherwise the GET starts
CheckTimeout ==
    /\ polling.pc = "loop"
    /\ LET elapsed == polling.clock
       IN  polling' =
              IF elapsed > timeout
              THEN [polling EXCEPT !.pc = "raised", !.elapsed = elapsed,
                       !.exc = Exc("TimeoutError", "Video generation timed out")]
              ELSE [polling EXCEPT !.pc = "request", !.elapsed = elapsed]
    /\ UNCHANGED <<service, parser, analysis, upload, stamp, pipeline, analytics, summary, oracle>>

\* wavespeed_client.py:223-230  the except clause of the loop, entered with
\* the error count `errors` and the clock `now`
PollExcept(p, errors, now) ==
    IF errors + 1 >= max_consecutive_errors
    THEN [p EXCEPT !.pc = "raised", !.consecutive_errors = errors + 1, !.clock = now,
             !.exc = Exc("RuntimeError", "Connection failed after retries")]
    ELSE [p EXCEPT !.pc = "loop", !.consecutive_errors = errors + 1,
             !.clock = now + poll_interval * 2, !.slept = poll_interval * 2]

\* wavespeed_client.py:191-232  one GET and what the loop does with its
\* outcome; the request takes d units of time
Poll(outcome, d) ==
    /\ polling.pc = "request"
    /\ LET now == polling.clock + d
           seen == [polling EXCEPT
                       !.last = outcome, !.slept = 0,
                       !.streak = IF outcome \in FailedPolls THEN @ + 1 ELSE 0,
                       !.terminal = @ \/ outcome \in {"completed", "failed"}]
       IN  polling' =
              CASE outcome = "network" ->
                      \* requests.get raises
                      PollExcept(seen, polling.consecutive_errors, now)
                [] outcome = "non200" ->
                      \* 193-199; the RuntimeError of 196 is raised inside the try
                      \* block and goes through the except clause
                      IF polling.consecutive_errors + 1 >= max_consecutive_errors
                      THEN PollExcept(seen, polling.consecutive_errors + 1, now)
                      ELSE [seen EXCEPT !.pc = "loop",
                               !.consecutive_errors = polling.consecutive_errors + 1,
                               !.clock = now + poll_interval * 2,
                               !.slept = poll_interval * 2]
                [] outcome = "completed" ->
                      \* 203-214
                      [seen EXCEPT !.pc = "returned", !.consecutive_errors = 0,
                          !.clock = now, !.result = "output_url"]
                [] outcome = "failed" ->
                      \* 203, 216-218: the RuntimeError is raised inside the try
                      \* block and goes through the except clause
                      PollExcept(seen, 0, now)
                [] OTHER ->
                      \* 203, 220-221, 232
                      [seen EXCEPT !.pc = "loop", !.consecutive_errors = 0,
                          !.clock = now + poll_interval, !.slept = poll_interval]
    /\ UNCHANGED <<service, parser, analysis, upload, stamp, pipeline, analytics, summary, oracle>>

RequestTimes == 0..MaxRequestTime

NextPolling ==
    \/ \E ok \in BOOLEAN, d \in RequestTimes : generate_video(ok, d)
    \/ CheckTimeout
    \/ \E outcome \in PollOutcomes, d \in RequestTimes : Poll(outcome, d)

SpecPolling == Init /\ [][NextPolling]_vars
\* every call of the loop returns: requests.get has a timeout, time.sleep ends
SpecPollingFair == SpecPolling /\ WF_vars(NextPolling)

\* ----------------------------------------------- upload_to_temp_hosting
\* videos/wavespeed_client.py:271-277  the file is measured and errors = []
\* (os.path.getsize raises on a missing file)
upload_to_temp_hosting(copy, exists) ==
    /\ upload.pc = "idle"
    /\ upload' = IF exists
                 THEN [upload EXCEPT !.pc = "trying", !.copy = copy, !.next = 1]
                 ELSE [upload EXCEPT !.pc = "raised", !.copy = copy,
                          !.exc = Exc("FileNotFoundError", "No such file or directory")]
    /\ UNCHANGED <<service, parser, analysis, polling, stamp, pipeline, analytics, summary, oracle>>

\* variant: a host that fails ends the upload
TryHost_GivesUp(answer) ==
    /\ upload.pc = "trying"
    /\ LET host == Hosts(upload.copy)[upload.next]
           tried == [upload EXCEPT !.contacted = Append(@, host)]
       IN  upload' =
              IF Accepts(host, answer)
              THEN [tried EXCEPT !.pc = "returned", !.url = host]
              ELSE [tried EXCEPT !.pc = "raised",
                       !.errors = Append(@, ErrorEntry(host, answer)),
                       !.exc = Exc("RuntimeError", "All upload services failed"),
                       !.detail = Append(upload.errors, ErrorEntry(host, answer))]
    /\ UNCHANGED <<service, parser, analysis, polling, stamp, pipeline, analytics, summary, oracle>>

\* videos/wavespeed_client.py:279-338  one `try` block: the next host is
\* asked; its URL is returned, or its error is appended and the following
\* block runs; after the last block the RuntimeError carries the errors
TryHost(answer) ==
    /\ upload.pc = "trying"
    /\ LET hosts == Hosts(upload.copy)
           host == hosts[upload.next]
           tried == [upload EXCEPT !.contacted = Append(@, host)]
           errors == Append(upload.errors, ErrorEntry(host, answer))
       IN  upload' =
              IF Accepts(host, answer)
              THEN [tried EXCEPT !.pc = "returned", !.url = host]
              ELSE IF upload.next < Len(hosts)
              THEN [tried EXCEPT !.errors = errors, !.next = @ + 1]
              ELSE [tried EXCEPT !.pc = "raised", !.errors = errors,
                       !.exc = Exc("RuntimeError", "All upload services failed"),
                       !.detail = errors]
    /\ UNCHANGED <<service, parser, analysis, polling, stamp, pipeline, analytics, summary, oracle>>

NextUpload ==
    \/ \E copy \in Copies, exists \in BOOLEAN : upload_to_temp_hosting(copy, exists)
    \/ \E answer \in UploadAnswers : TryHost(answer)

SpecUpload == Init /\ [][NextUpload]_vars

\* ------------------------------------------------- AdPlacementAnalyzer
\* what a raising call leaves
AnalysisRaised(fn, e) == [NoAnalysis EXCEPT !.pc = "raised", !.fn = fn, !.exc = e]

\* ad_placement.py:74-163  analyze: the transcript is parsed, the oracle is
\* asked (it answers p or the call raises), the buffer is derived
analyze ==
    /\ analysis.pc = "idle"
    /\ \E transcript \in Transcripts, answers \in BOOLEAN, p \in OraclePlacements,
          buffer_before \in BuffersBefore, buffer_after \in BuffersAfter :
          analysis' =
             IF transcript.cues = 0
             THEN AnalysisRaised("analyze", Exc("ValueError", "No subtitle entries found"))
             ELSE IF ~answers
             THEN AnalysisRaised("analyze",
                                 Exc("ValueError", "Failed to parse Grok response as JSON"))
             ELSE LET buffer == AnalyzeBuffer(p, buffer_before, buffer_after)
                  IN  [NoAnalysis EXCEPT
                          !.pc = "returned", !.fn = "analyze",
                          !.insertion_point = p.insertion_point,
                          !.buffer_start = buffer.buffer_start,
                          !.buffer_end = buffer.buffer_end,
                          !.buffer_before = buffer_before, !.buffer_after = buffer_after,
                          !.video_duration = transcript.end_time,
                          !.supplied = p.buffer_start # <<>>]
    /\ UNCHANGED <<service, parser, polling, upload, stamp, pipeline, analytics, summary, oracle>>

\* ad_placement.py:283-287  the candidate the selection picks: an index at or
\* past the end is replaced by 0, and a negative one counts from the end as
\* Python indexes a list
PickedIndex(candidates, selected_index) ==
    LET selected_idx == IF selected_index >= Len(candidates) THEN 0 ELSE selected_index
    IN  IF selected_idx >= 0 THEN selected_idx + 1
        ELSE Len(candidates) + selected_idx + 1

\* the call raises e
Raise(a, e) == [a EXCEPT !.pc = "raised", !.exc = e]
\* variant: the frames are left behind
Finally_LeavesFrames(a) == a
\* ad_placement.py:278-280  finally: shutil.rmtree(temp_dir, ignore_errors=True)
Finally(a) == [a EXCEPT !.temp_dir = rmtree(@)]
\* variant: the second pass starts whatever the first pass returned
HasCandidates_Unchecked(candidates) == TRUE
\* ad_placement.py:233  `if not candidates`
HasCandidates(candidates) == candidates # <<>>

\* ad_placement.py:165-318  analyze_multipass: first pass (candidates), then
\* in a temporary directory the frames and the vision call, then the
\* selection and the buffer; `raises` is the call that raises, if any
analyze_multipass ==
    /\ analysis.pc = "idle"
    /\ \E transcript \in Transcripts, candidates \in CandidateLists,
          raises \in MultipassCalls \cup {"none"}, selected_index \in SelectedIndexes,
          buffer_before \in BuffersBefore, buffer_after \in BuffersAfter :
          LET called == [NoAnalysis EXCEPT !.fn = "analyze_multipass",
                                           !.buffer_before = buffer_before,
                                           !.buffer_after = buffer_after]
              pass1 == [called EXCEPT !.pass1 = "returned", !.candidates = Len(candidates)]
              pass2 == [pass1 EXCEPT !.temp_dir = mkdtemp]
              framed == [pass2 EXCEPT !.frames = Len(candidates)]
              selection == Finally([framed EXCEPT !.vision_calls = 1,
                                                  !.selected_index = selected_index])
              picked == PickedIndex(candidates, selected_index)
          IN  analysis' =
                 IF transcript.cues = 0
                 THEN Raise(called, Exc("ValueError", "No subtitle entries found"))
                 ELSE IF raises = "find_candidate_placements"
                 THEN Raise([called EXCEPT !.pass1 = "raised"],
                            Exc("ValueError", "Failed to parse candidates response"))
                 ELSE IF ~HasCandidates(candidates)
                 THEN Raise(pass1, Exc("ValueError",
                                       "No candidates found from transcript analysis"))
                 ELSE IF raises = "extract_frames_at_timestamps"
                 THEN Raise(Finally(pass2), Exc("RuntimeError", "Frame extraction failed"))
                 ELSE IF raises = "select_best_placement_from_frames"
                 THEN Raise(Finally([framed EXCEPT !.vision_calls = 1]),
                            Exc("ValueError", "Failed to parse selection response"))
                 ELSE IF picked \notin 1..Len(candidates)
                 THEN Raise(selection, Exc("IndexError", "list index out of range"))
                 ELSE LET selected == candidates[picked]
                          buffer == MultipassBuffer(selected, buffer_before, buffer_after)
                      IN  [selection EXCEPT
                              !.pc = "returned",
                              !.insertion_point = selected.insertion_point,
                              !.buffer_start = buffer.buffer_start,
                              !.buffer_end = buffer.buffer_end,
                              !.video_duration = transcript.end_time,
                              !.picked = picked,
                              !.first = candidates[1].insertion_point]
    /\ UNCHANGED <<service, parser, polling, upload, stamp, pipeline, analytics, summary, oracle>>

NextAnalysis ==
    \/ analyze
    \/ analyze_multipass

SpecAnalysis == Init /\ [][NextAnalysis]_vars

\* ------------------------------------------------------- process_video
\* process_video.py:127-131  finally of process_video
PipelineFinally(p) == [p EXCEPT !.temp_dir = rmtree(@)]
\* insert_segment.py:208-212  the inner finally of insert_segment
InsertFinally(p) == [p EXCEPT !.insert_temp_dir = rmtree(@)]
\* process_video.py:123-125  except: print and re-raise, then the finally
PipelineRaise(p, e) == PipelineFinally([p EXCEPT !.pc = "raised", !.exc = e])

\* process_video.py:66-78  the input is looked up, the temporary directory made
process_video(exists) ==
    /\ pipeline.pc = "idle"
    /\ pipeline' =
          IF ~exists
          THEN [pipeline EXCEPT !.pc = "raised",
                                !.exc = Exc("FileNotFoundError", "Input video file not found")]
          ELSE [pipeline EXCEPT !.pc = "extract", !.temp_dir = mkdtemp]
    /\ UNCHANGED <<service, parser, analysis, polling, upload, stamp, analytics, summary, oracle>>

\* process_video.py:92-96  step 1, extract_segment into temp_dir
extract_segment(ok) ==
    /\ pipeline.pc = "extract"
    /\ pipeline' =
          IF ok THEN [pipeline EXCEPT !.pc = "edit"]
          ELSE PipelineRaise(pipeline,
                             Exc("ValueError", "End time must be greater than start time"))
    /\ UNCHANGED <<service, parser, analysis, polling, upload, stamp, analytics, summary, oracle>>

\* process_video.py:98-109  step 2, edit_segment into temp_dir
edit_segment(ok) ==
    /\ pipeline.pc = "edit"
    /\ pipeline' =
          IF ok THEN [pipeline EXCEPT !.pc = "insert"]
          ELSE PipelineRaise(pipeline, Exc("TimeoutError", "Video generation timed out"))
    /\ UNCHANGED <<service, parser, analysis, polling, upload, stamp, analytics, summary, oracle>>

\* process_video.py:111-114, insert_segment.py:86-142  step 3, insert_segment
\* up to its own temporary directory: files looked up, times validated,
\* clips loaded
insert_segment(ok) ==
    /\ pipeline.pc = "insert"
    /\ pipeline' =
          IF ok THEN [pipeline EXCEPT !.pc = "clips", !.insert_temp_dir = mkdtemp]
          ELSE PipelineRaise(pipeline,
                             Exc("ValueError", "Start time exceeds video duration"))
    /\ UNCHANGED <<service, parser, analysis, polling, upload, stamp, analytics, summary, oracle>>

\* insert_segment.py:144-215, process_video.py:116-131  the clips are cut and
\* joined with ffmpeg, the directories are removed, the output path returned
ConcatClips(ok) ==
    /\ pipeline.pc = "clips"
    /\ pipeline' =
          IF ok
          THEN PipelineFinally(InsertFinally([pipeline EXCEPT !.pc = "returned",
                                                               !.output = TRUE]))
          ELSE PipelineRaise(InsertFinally(pipeline),
                             Exc("RuntimeError", "ffmpeg concat failed"))
    /\ UNCHANGED <<service, parser, analysis, polling, upload, stamp, analytics, summary, oracle>>

NextPipeline ==
    \E ok \in BOOLEAN :
        \/ process_video(ok)
        \/ extract_segment(ok)
        \/ edit_segment(ok)
        \/ insert_segment(ok)
        \/ ConcatClips(ok)

\* the stages that work in temporary directories, one call in a behaviour
NextStages ==
    \/ pipeline.pc = "idle" /\ analyze_multipass
    \/ analysis.pc = "idle" /\ NextPipeline

SpecStages == Init /\ [][NextStages]_vars

\* ------------------------------------------------------------ analytics
\* security.py:59-92  get_current_user_optional: None (<<>>), or the dict
\* with "id"
get_current_user_optional(credentials) ==
    IF ~credentials.present THEN <<>>
    ELSE IF ~credentials.decodes THEN <<>>
    ELSE IF credentials.sub \in {None, ""} THEN <<>>
    ELSE <<[id |-> credentials.sub]>>

\* variant: without a user the user_id of the body is kept
StampUser_KeepsBody(event, current_user) ==
    IF current_user # <<>> THEN [event EXCEPT !.user_id = current_user[1].id] ELSE event
\* analytics.py:92  event.user_id = current_user.get("id") if current_user else None
StampUser(event, current_user) ==
    [event EXCEPT !.user_id = IF current_user # <<>> THEN current_user[1].id ELSE None]
\* analytics.py:93  event.timestamp = event.timestamp or datetime.now()
StampTime(event, now) ==
    [event EXCEPT !.timestamp = IF @ # <<>> THEN @ ELSE <<now>>]

\* analytics.py:92-103  the body shared by the five handlers
Track(handler, credentials, body, now) ==
    LET current_user == get_current_user_optional(credentials)
        event == StampTime(StampUser(body, current_user), now)
    IN  /\ analytics' =
              [handler |-> handler, credentials |-> credentials, body |-> body,
               event |-> event, now |-> now,
               json |-> [success |-> TRUE,
                         event_id |-> <<Prefix[handler], event.ad_id,
                                        unix_ts(event.timestamp[1])>>]]
        /\ UNCHANGED <<service, parser, analysis, polling, upload, stamp, pipeline, summary, oracle>>

\* analytics.py:81-103
track_impression(credentials, body, now) == Track("track_impression", credentials, body, now)
\* analytics.py:106-126
track_click(credentials, body, now) == Track("track_click", credentials, body, now)
\* analytics.py:129-147
track_view(credentials, body, now) == Track("track_view", credentials, body, now)
\* analytics.py:150-168
track_conversion(credentials, body, now) == Track("track_conversion", credentials, body, now)
\* analytics.py:171-189
track_dismissal(credentials, body, now) == Track("track_dismissal", credentials, body, now)

\* the handlers keep no state: one request in a behaviour
NextAnalytics ==
    /\ analytics.handler = "none"
    /\ \E credentials \in Credentials, body \in Events, now \in Datetimes :
        \/ track_impression(credentials, body, now)
        \/ track_click(credentials, body, now)
        \/ track_view(credentials, body, now)
        \/ track_conversion(credentials, body, now)
        \/ track_dismissal(credentials, body, now)

SpecAnalytics == Init /\ [][NextAnalytics]_vars

\* ------------------------------------------------------------ timestamps
\* transcript_parser.py:295-305  timestamp_to_seconds(s)
ToSeconds ==
    /\ stamp.pc = "idle"
    /\ \E s \in Stamps :
          stamp' = [stamp EXCEPT !.pc = "seconds", !.s = s,
                                 !.seconds = timestamp_to_seconds(s)]
    /\ UNCHANGED <<service, parser, analysis, polling, upload, pipeline, analytics, summary, oracle>>

\* transcript_parser.py:286-292  seconds_to_timestamp of that value
ToTimestamp ==
    /\ stamp.pc = "seconds"
    /\ stamp' = [stamp EXCEPT !.pc = "timestamp",
                              !.back = seconds_to_timestamp_ms(stamp.seconds)]
    /\ UNCHANGED <<service, parser, analysis, polling, upload, pipeline, analytics, summary, oracle>>

NextTimestamp == ToSeconds \/ ToTimestamp

SpecTimestamp == Init /\ [][NextTimestamp]_vars

\* ----------------------------------------------------- oracle task methods
\* the text of a response, as the tokens that matter to the parser: an
\* opening brace, a closing brace, and "k" for any other run of text
Tokens == {"{", "}", "k"}
Texts == UNION {[1..n -> Tokens] : n \in 0..MaxTokens}
\* json.loads(text) succeeds: the text is one value, a scalar "k" or an
\* object { } or { value }
RECURSIVE IsJson(_)
IsJson(text) ==
    \/ text = <<"k">>
    \/ /\ Len(text) >= 2 /\ text[1] = "{" /\ text[Len(text)] = "}"
       /\ (Len(text) = 2 \/ IsJson(SubSeq(text, 2, Len(text) - 1)))
\* re.search(r'\{[\s\S]*\}', text): the leftmost, longest match, from the
\* first opening brace to the last closing brace after it; <<>> for no match
re_search(text) ==
    LET opens == {i \in 1..Len(text) : text[i] = "{"}
        first == CHOOSE i \in opens : \A x \in opens : i <= x
        closes == {i \in 1..Len(text) : text[i] = "}" /\ i > first}
        last == CHOOSE i \in closes : \A x \in closes : i >= x
    IN  IF opens = {} THEN <<>>
        ELSE IF closes = {} THEN <<>>
        ELSE SubSeq(text, first, last)
\* the task methods of GrokClient
TaskMethods == {"analyze_ad_placement", "analyze_user_demographics",
                "match_user_to_products", "suggest_product"}
\* variant: a response that does not parse is asked for again, and the second
\* answer is taken as it is
ParseResponse_AsksAgain(o, response) ==
    IF IsJson(response)
    THEN [o EXCEPT !.pc = "returned", !.result = <<response>>]
    ELSE [o EXCEPT !.pc = "returned", !.chat_calls = @ + 1, !.result = <<response>>]
\* grok_client.py:158-164, 278-284, 369-375, 446-452  the end of a task
\* method: json.loads(response), and in the except clause the search for a
\* {...} substring and json.loads of the match
ParseResponse(o, response) ==
    IF IsJson(response)
    THEN [o EXCEPT !.pc = "returned", !.result = <<response>>]
    ELSE LET json_match == re_search(response)
             searching == [o EXCEPT !.searched = Append(@, response)]
         IN  IF json_match = <<>>
             THEN [searching EXCEPT !.pc = "raised",
                      !.exc = Exc("ValueError", "Failed to parse Grok response as JSON")]
             ELSE IF IsJson(json_match)
             THEN [searching EXCEPT !.pc = "returned", !.result = <<json_match>>]
             ELSE [searching EXCEPT !.pc = "raised",
                      !.exc = Exc("JSONDecodeError", "Expecting value")]
\* grok_client.py:42-72, 153-156  a task method builds its messages and calls
\* chat once; chat returns the text of the answer or the request raises
Task(method) ==
    /\ oracle.pc = "idle"
    /\ LET called == [oracle EXCEPT !.method = method, !.chat_calls = @ + 1] IN
       \/ \E response \in Texts :
             oracle' = ParseResponse([called EXCEPT !.response = response], response)
       \/ oracle' = [called EXCEPT !.pc = "raised",
                                   !.exc = Exc("APIError", "Connection error")]
    /\ UNCHANGED <<service, parser, analysis, polling, upload, stamp, pipeline, analytics,
                   summary>>
\* grok_client.py:74-164
analyze_ad_placement == Task("analyze_ad_placement")
\* grok_client.py:180-284
analyze_user_demographics == Task("analyze_user_demographics")
\* grok_client.py:286-375
match_user_to_products == Task("match_user_to_products")
\* grok_client.py:378-452
suggest_product == Task("suggest_product")

NextOracle ==
    \/ analyze_ad_placement
    \/ analyze_user_demographics
    \/ match_user_to_products
    \/ suggest_product

SpecOracle == Init /\ [][NextOracle]_vars

\* ------------------------------------------------------- transcript summary
\* transcript_parser.py:267-283  one call on a parser that holds n cues
get_transcript_summary ==
    /\ summary.pc = "idle"
    /\ \E n \in 0..MaxSummaryCues, max_entries \in 1..MaxCap :
          summary' = [pc |-> "returned", entries |-> Entries(n), max_entries |-> max_entries,
                      lines |-> TranscriptSummary(Entries(n), max_entries)]
    /\ UNCHANGED <<service, parser, analysis, polling, upload, stamp, pipeline, analytics, oracle>>

NextSummary == get_transcript_summary

SpecSummary == Init /\ [][NextSummary]_vars

\* ================================================================== claims
Known == DOMAIN processing_jobs
Readers == {"get_processing_status", "get_playlist", "get_segment"}
IsPrefix(p, q) == Len(p) <= Len(q) /\ SubSeq(q, 1, Len(p)) = p
NoDuplicates(q) == \A x, y \in 1..Len(q) : q[x] = q[y] => x = y
Occurs(q, x) == \E k \in 1..Len(q) : q[k] = x
SegmentEntries(body) == {k \in 1..Len(body) : IsSegmentLine(body[k])}

\* C1: a job's status changes only queued -> processing, processing ->
\* completed or processing -> failed; a job enters the registry queued;
\* completed and failed are never left.
C1_StatusTransitions ==
    [][\A j \in JobIds :
          /\ (j \in Known /\ j \in DOMAIN processing_jobs')
                => \/ processing_jobs'[j].status = Job(j).status
                   \/ <<Job(j).status, processing_jobs'[j].status>> \in
                         {<<"queued", "processing">>, <<"processing", "completed">>,
                          <<"processing", "failed">>}
          /\ (j \notin Known /\ j \in DOMAIN processing_jobs')
                => processing_jobs'[j].status = "queued"
          /\ j \in Known => j \in DOMAIN processing_jobs']_vars

\* a job has gone all the way to completed, and a request was served after it
C1_Witness ==
    \E j \in Known : Job(j).status = "completed" /\ worker[j].pc = "done"
                     /\ resp.handler = "get_processing_status" /\ resp.code = 200

\* the playlist is the original one with every segment URI routed through
\* the segment endpoint
IsProcessingView(body, j) ==
    LET orig == disk[j].original_m3u8 IN
    /\ orig # <<>>
    /\ Len(body) = Len(orig)
    /\ \A k \in 1..Len(orig) :
          IF orig[k].t = "file" THEN body[k] = ApiLine(j, orig[k].n) ELSE body[k] = orig[k]

\* the playlist of a completed job: every segment it lists is a file of the
\* job's segments/ directory
IsCompletedView(body, j) ==
    /\ Job(j).status = "completed"
    /\ body # <<>>
    /\ \A k \in SegmentEntries(body) :
          body[k].t = "api" /\ body[k].job = j /\ body[k].n \in DOMAIN disk[j].segments

\* C2: a playlist returned by get_playlist is the processing view or the
\* completed view, and a completed view never lists a merged segment that is
\* not in segments/.
C2_PlaylistViews ==
    (resp.handler = "get_playlist" /\ resp.code = 200)
        => \/ (resp.seen # "completed" /\ IsProcessingView(resp.body, resp.job))
           \/ (resp.seen = "completed" /\ IsCompletedView(resp.body, resp.job))

\* a completed view listing edited and original segments has been returned
C2_Witness ==
    /\ resp.handler = "get_playlist" /\ resp.code = 200 /\ resp.seen = "completed"
    /\ \E k \in SegmentEntries(resp.body) :
          disk[resp.job].segments[resp.body[k].n] = Edited(0)
    /\ \E k \in SegmentEntries(resp.body) :
          disk[resp.job].segments[resp.body[k].n] = Original(0)

IsOwner(j, u) == j \in Known /\ Job(j).user_id = u

C4_Ownership ==
    resp.handler \in Readers =>
        /\ resp.seen = "unknown" => resp.code = 404
        /\ (resp.seen # "unknown" /\ ~IsOwner(resp.job, resp.caller))
              => resp.code = 403 /\ resp.json = <<>> /\ resp.body = <<>> /\ resp.file = <<>>
        /\ resp.code = 200 => IsOwner(resp.job, resp.caller)
        /\ resp.code \in {200, 403, 404}

\* another user asked for a segment that the owner could get
C4_Witness ==
    /\ resp.handler = "get_segment" /\ resp.code = 403
    /\ resp.job \in Known /\ Job(resp.job).status = "completed"
    /\ resp.seg \in DOMAIN SegmentsDir(resp.job)

\* what a job dict keeps of the exception: process.py:208 stores str(e), the
\* message, under "error"
StoredError(job) == IF Has(job, "error") THEN [message |-> job.error] ELSE [x \in {} |-> ""]

\* the except clause of job j has run to its end
Recorded(j) == worker[j].pc # "except_error"

Messages == {"Failed to convert video to HLS", "No subtitle entries found",
             "End time must be greater than start time",
             "Start time exceeds video duration", "Video generation timed out",
             "ffmpeg concat failed", "Unable to parse timestamp", "hls_info"}

SixStages == <<"segment_original", "placement", "extract", "generate",
               "segment_edited", "splice">>
RECURSIVE Projected(_)
Projected(q) ==
    IF q = <<>> THEN <<>>
    ELSE (IF Occurs(SixStages, Head(q)) THEN <<Head(q)>> ELSE <<>>) \o Projected(Tail(q))

\* C6: the worker runs segment-original, placement, extract, generate,
\* segment-edited, splice in this order, one after the other.
C6_StageOrder == \A j \in JobIds : IsPrefix(Projected(stages[j]), SixStages)

\* a worker has run all six stages
C6_Witness == \E j \in JobIds : Projected(stages[j]) = SixStages

\* C7: once a stage has raised, the job becomes failed with the error stored,
\* no further stage runs, and no stage runs twice.
C7_FailureStops ==
    [][\A j \in JobIds :
          /\ worker[j].pc = "except"
                => /\ stages'[j] = stages[j]
                   /\ \/ worker'[j].pc = "except" /\ processing_jobs'[j] = Job(j)
                      \/ /\ worker'[j].pc = "except_error"
                         /\ worker'[j].exc = worker[j].exc
                         /\ processing_jobs'[j].status = "failed"
          /\ worker[j].pc = "except_error"
                => /\ stages'[j] = stages[j]
                   /\ \/ worker'[j].pc = "except_error" /\ processing_jobs'[j] = Job(j)
                      \/ /\ worker'[j].pc = "done"
                         /\ processing_jobs'[j].status = "failed"
                         /\ Has(processing_jobs'[j], "error")
                         /\ processing_jobs'[j].error = worker[j].exc.message
          /\ worker[j].pc = "done" => stages'[j] = stages[j] /\ worker'[j].pc = "done"
          /\ NoDuplicates(stages'[j])]_vars

\* a job failed in the middle of the pipeline, after the placement was chosen
C7_Witness ==
    \E j \in Known : /\ Job(j).status = "failed" /\ worker[j].pc = "done"
                     /\ stages[j] = <<"segment_original", "placement", "extract", "generate">>

\* the splice of job j is done
Spliced(j) == Occurs(stages[j], "splice") /\ worker[j].pc # "except"
                 /\ j \in Known /\ Job(j).status # "failed"
OriginalCount(j) == Cardinality(DOMAIN disk[j].original)
EditedCount(j) == Cardinality(DOMAIN disk[j].edited_hls)

\* C8: after the splice, segments/ holds exactly segment000 .. segment(|M|-1)
\* and hls_info.segment_count is |M| = a + K + (N - b).
C8_MergedContiguous ==
    \A j \in JobIds :
        Spliced(j) =>
            LET M == Job(j).hls_info.segment_count
                a == Job(j).edited_segments.start
                b == Job(j).edited_segments.end
            IN  /\ DOMAIN disk[j].segments = 0..(M - 1)
                /\ M = a + EditedCount(j) + (OriginalCount(j) - b)

\* the files of a directory as a sequence, when their indices are 0 .. n-1
AsSequence(files) == [k \in 1..Cardinality(DOMAIN files) |-> files[k - 1]]
IsContiguous(files) == DOMAIN files = 0..(Cardinality(DOMAIN files) - 1)

\* C9: the merged files are O[0..a) ++ E ++ O[b..N); when K = b - a and
\* E[i] = O[a+i] the merged sequence is the original one.
C9_SpliceIsConcatenation ==
    \A j \in JobIds :
        Spliced(j) =>
            LET O == AsSequence(disk[j].original)
                E == AsSequence(disk[j].edited_hls)
                a == Job(j).edited_segments.start
                b == Job(j).edited_segments.end
                N == Len(O)
                K == Len(E)
            IN  /\ IsContiguous(disk[j].segments)
                /\ AsSequence(disk[j].segments) = SubSeq(O, 1, a) \o E \o SubSeq(O, b + 1, N)
                /\ (K = b - a /\ b <= N /\ \A i \in 1..K : E[i] = O[a + i])
                      => AsSequence(disk[j].segments) = O

\* C10: every segment URI of a playlist that get_playlist returns is served by
\* get_segment from a file on disk; a playlist request answers 200, 403 or 404.
C10_NoDanglingEntry ==
    resp.handler = "get_playlist" =>
        /\ resp.code \in {200, 403, 404}
        /\ resp.code # 200 => resp.body = <<>>
        /\ resp.code = 200 =>
              \A k \in SegmentEntries(resp.body) :
                  /\ resp.body[k].t = "api" /\ resp.body[k].job = resp.job
                  /\ resp.body[k].n \in DOMAIN SegmentsDir(resp.job)

\* a playlist was returned for a completed job whose segments/ directory
\* misses an index below the recorded segment count
C10_Witness ==
    /\ resp.handler = "get_playlist" /\ resp.code = 200 /\ resp.seen = "completed"
    /\ SegmentEntries(resp.body) # {}
    /\ \E i \in 0..(Job(resp.job).hls_info.segment_count - 1) :
          i \notin DOMAIN disk[resp.job].segments
\* the generation stage of job j raised after the oracle had answered
GenerationFailed(j) ==
    /\ j \in Known /\ Job(j).status = "failed"
    /\ stages[j] = <<"segment_original", "placement", "extract", "generate">>

\* C17: when the oracle has answered and the generation stage then fails, the
\* job is failed and the status endpoint reports the post-placement progress 60.
C17_ProgressAfterGenerationFailure ==
    (resp.handler = "get_processing_status" /\ resp.code = 200 /\ GenerationFailed(resp.job))
        => resp.json.status = "failed" /\ resp.json.progress = 60

\* the progress values the worker publishes
ProgressHints == {0, 10, 20, 30, 40, 60, 70, 90, 100}

C19_GapDurations ==
    parser.pc = "gaps" =>
        \A k \in 1..Len(parser.gaps) :
            LET G == parser.gaps[k] IN
            /\ G.duration = G.end_time - G.start_time
            /\ G.duration >= parser.min_duration
            /\ G.duration > 0

\* the adjacent pairs (by the position of the first cue) at distance >= tau
FarPairs(entries, tau) ==
    {i \in 1..(Len(entries) - 1) : entries[i + 1].start_time - entries[i].end_time >= tau}
\* the gap between cue i and cue i + 1
GapOfPair(entries, i) ==
    [start_time |-> entries[i].end_time, end_time |-> entries[i + 1].start_time,
     duration |-> entries[i + 1].start_time - entries[i].end_time]
\* the pair a gap lies after: the last text of its context_before
PairOfGap(G) == CHOOSE i \in 1..Len(parser.entries) :
                    parser.entries[i].text = G.context_before[Len(G.context_before)]
Triple(G) == [start_time |-> G.start_time, end_time |-> G.end_time, duration |-> G.duration]

\* C20: find_gaps emits exactly one gap (prev.end, next.start, next.start -
\* prev.end) for every adjacent pair at distance >= the threshold, none for
\* any other pair, and returns them by duration in non-increasing order.
C20_GapsExactAndOrdered ==
    parser.pc = "gaps" =>
        LET gaps == parser.gaps
            far == FarPairs(parser.entries, parser.min_duration)
        IN  /\ Len(gaps) = Cardinality(far)
            /\ \A k \in 1..Len(gaps) :
                  PairOfGap(gaps[k]) \in far
                  /\ Triple(gaps[k]) = GapOfPair(parser.entries, PairOfGap(gaps[k]))
            /\ \A i \in far : Cardinality({k \in 1..Len(gaps) : PairOfGap(gaps[k]) = i}) = 1
            /\ \A k \in 1..(Len(gaps) - 1) : gaps[k].duration >= gaps[k + 1].duration

\* two gaps were found and the longer one lies after the shorter one in the
\* transcript
C20_Witness ==
    /\ parser.pc = "gaps" /\ Len(parser.gaps) = 2
    /\ parser.gaps[1].duration > parser.gaps[2].duration
    /\ PairOfGap(parser.gaps[1]) > PairOfGap(parser.gaps[2])
    /\ parser.min_duration > 0
\* C13: the first poll that reports completed makes the loop return the
\* output URL, the first poll that reports failed makes it stop with a
\* generation failure, and no poll is issued after either.
C13_PollTransitions ==
    /\ polling.last = "completed" => polling.pc = "returned" /\ polling.result = "output_url"
    /\ polling.last = "failed"
          => polling.pc = "raised" /\ polling.exc.message = "Video generation failed"
    /\ polling.terminal => polling.pc \in {"returned", "raised"}

Ended == polling.pc \in {"returned", "raised"}

\* C14: no poll is started once the elapsed time exceeds the timeout; the
\* loop then raises TimeoutError, which its except clause does not absorb;
\* without a completed report the loop does not return, and every call ends.
C14_Timeout ==
    /\ [](polling.pc = "request" => polling.elapsed <= timeout)
    /\ [](polling.pc = "returned" => polling.last = "completed")
    /\ [][(polling.pc = "loop" /\ polling.clock > timeout)
             => (polling'.pc = "raised" /\ polling'.exc.kind = "TimeoutError")]_vars
    /\ [][polling.exc.kind = "TimeoutError" => polling' = polling]_vars
    /\ <>Ended

\* the provider answered queued or processing until the time ran out
C14_Witness ==
    /\ polling.pc = "raised" /\ polling.exc.kind = "TimeoutError"
    /\ ~polling.terminal /\ polling.last \in {"queued", "processing"}
    /\ polling.elapsed > timeout

\* C15: consecutive_errors is the number of polls in a row that failed (non-200
\* answer or network fault) and is 0 after any successful poll; a failed poll
\* is followed by a sleep of twice poll_interval; the unreachable error is
\* raised at the max_consecutive_errors-th failure in a row, and no further
\* failing poll is made.
C15_ErrorBudget ==
    /\ polling.pc \in {"loop", "request"} => polling.consecutive_errors = polling.streak
    /\ (polling.pc = "loop" /\ polling.last \in FailedPolls)
          => polling.slept = poll_interval * 2
    /\ polling.exc.message = "Connection failed after retries"
          => polling.streak = max_consecutive_errors
    /\ polling.streak <= max_consecutive_errors

\* the hosts of the copy in use, up to the n-th
FirstHosts(n) == SubSeq(Hosts(upload.copy), 1, n)

\* C16: the hosts are tried in their fixed order, a later one only after all
\* earlier ones have failed; the URL returned is that of the first host that
\* accepts, and no later host is contacted; when all fail, one error is raised
\* whose detail has exactly one entry per host tried, in order.
C16_UploadFallback ==
    upload.pc \in {"trying", "returned", "raised"} /\ upload.exc.kind # "FileNotFoundError" =>
        LET n == Len(upload.contacted) IN
        /\ upload.contacted = FirstHosts(n)
        /\ upload.pc = "trying" =>
              /\ upload.next = n + 1
              /\ Len(upload.errors) = n
              /\ \A k \in 1..n : upload.errors[k].host = upload.contacted[k]
        /\ upload.pc = "returned" =>
              /\ n >= 1 /\ upload.url = upload.contacted[n]
              /\ Len(upload.errors) = n - 1
              /\ \A k \in 1..(n - 1) : upload.errors[k].host = upload.contacted[k]
        /\ upload.pc = "raised" =>
              /\ upload.contacted = Hosts(upload.copy)
              /\ upload.exc.message = "All upload services failed"
              /\ Len(upload.detail) = n
              /\ \A k \in 1..n : upload.detail[k].host = upload.contacted[k]

\* the first two hosts failed and the third returned the URL
C16_Witness ==
    /\ upload.pc = "returned" /\ Len(upload.contacted) = 3
    /\ upload.url = Hosts(upload.copy)[3]
    /\ upload.errors[1].status_code = 0 /\ upload.errors[2].status_code = 500
\* a time of a placement in seconds, read as extract_segment reads it
Seconds(ts) == parse_time(ts) \div 1000

\* C11: every placement returned by analyze or analyze_multipass satisfies
\* 0 <= buffer_start <= insertion_point <= buffer_end <= media_duration.
C11_BufferWithinMedia ==
    analysis.pc = "returned" =>
        /\ 0 <= Seconds(analysis.buffer_start)
        /\ Seconds(analysis.buffer_start) <= Seconds(analysis.insertion_point)
        /\ Seconds(analysis.insertion_point) <= Seconds(analysis.buffer_end)
        /\ Seconds(analysis.buffer_end) <= analysis.video_duration

\* C12: for a selected insertion point i >= 0 the buffer_start of the
\* placement is max(0, i - buffer_before), so 0 when i = 0 and never negative.
C12_BufferStart ==
    (analysis.pc = "returned" /\ analysis.insertion_point.parseable) =>
        LET i == Seconds(analysis.insertion_point) IN
        /\ Seconds(analysis.buffer_start) = Max(0, i - analysis.buffer_before)
        /\ i = 0 => Seconds(analysis.buffer_start) = 0
        /\ Seconds(analysis.buffer_start) >= 0
\* C21: the cue list returned by parse_file is sorted and free of overlap:
\* every cue ends no later than the next one starts.
C21_CuesDoNotOverlap ==
    parser.pc # "new" =>
        \A i \in 1..(Len(parser.entries) - 1) :
            parser.entries[i].end_time <= parser.entries[i + 1].start_time
\* C22: taking a well-formed timestamp HH:MM:SS,mmm to seconds and back
\* yields the same timestamp.
C22_TimestampRoundTrip ==
    stamp.pc = "timestamp" => stamp.back = stamp.s
\* C23: a selected_index outside 0 .. len(candidates) - 1, too large or
\* negative, makes analyze_multipass build the placement from candidates[0]
\* and raise no error.
C23_IndexClampedToZero ==
    (/\ analysis.fn = "analyze_multipass" /\ analysis.vision_calls = 1
     /\ analysis.selected_index \notin 0..(analysis.candidates - 1)) =>
        /\ analysis.pc = "returned"
        /\ analysis.picked = 1
        /\ analysis.insertion_point = analysis.first
\* C24: when the candidate generation returns zero candidates,
\* analyze_multipass raises the no-candidates error, having made no temporary
\* directory, extracted no frame and made no vision call, and it returns no
\* placement.
C24_NoCandidates ==
    (/\ analysis.fn = "analyze_multipass" /\ analysis.pass1 = "returned"
     /\ analysis.candidates = 0) =>
        /\ analysis.pc = "raised"
        /\ analysis.exc = Exc("ValueError", "No candidates found from transcript analysis")
        /\ analysis.temp_dir = "none"
        /\ analysis.frames = 0
        /\ analysis.vision_calls = 0
\* the first pass returned an empty candidate list and the call has ended
C24_Witness ==
    /\ analysis.fn = "analyze_multipass" /\ analysis.pass1 = "returned"
    /\ analysis.candidates = 0 /\ analysis.pc = "raised"
\* C27: when analyze_multipass, process_video or insert_segment has ended, by
\* a return or by an exception, the temporary directory it made exists no
\* longer.
C27_TempDirsRemoved ==
    /\ analysis.pc \in {"returned", "raised"} => analysis.temp_dir # "exists"
    /\ pipeline.pc \in {"returned", "raised"} =>
          pipeline.temp_dir # "exists" /\ pipeline.insert_temp_dir # "exists"
    /\ pipeline.pc \notin {"clips"} => pipeline.insert_temp_dir # "exists"
\* an exception raised while both directories existed has ended the pipeline
C27_Witness ==
    /\ pipeline.pc = "raised" /\ pipeline.exc.kind = "RuntimeError"
    /\ pipeline.temp_dir = "removed" /\ pipeline.insert_temp_dir = "removed"
\* the id of the caller the token names, None without a valid token
CallerId(credentials) ==
    IF credentials.present /\ credentials.decodes /\ credentials.sub \in Users
    THEN credentials.sub ELSE None
\* C25: after each of the five analytics handlers the event's user_id is the
\* id of the authenticated caller, or null without a valid token, whatever
\* the body said; a timestamp of the body is kept and a missing one is the
\* server's time; the answer has success true and the event_id
\* <kind>_<ad_id>_<unix_ts> of that timestamp.
C25_AnalyticsStamping ==
    analytics.handler # "none" =>
        /\ analytics.handler \in DOMAIN Prefix
        /\ analytics.event.user_id = CallerId(analytics.credentials)
        /\ analytics.body.timestamp # <<>> =>
              analytics.event.timestamp = analytics.body.timestamp
        /\ analytics.body.timestamp = <<>> => analytics.event.timestamp = <<analytics.now>>
        /\ analytics.event.ad_id = analytics.body.ad_id
        /\ analytics.json.success = TRUE
        /\ analytics.json.event_id =
              <<Prefix[analytics.handler], analytics.body.ad_id,
                (IF analytics.body.timestamp # <<>> THEN analytics.body.timestamp[1]
                 ELSE analytics.now) \div 1000>>
\* a request without a token whose body names a user and carries a timestamp
\* that is not a whole second
C25_Witness ==
    /\ analytics.handler = "track_conversion"
    /\ ~analytics.credentials.present
    /\ analytics.body.user_id \in Users
    /\ analytics.body.timestamp = <<1500>>
    /\ analytics.event.user_id = None
\* C26: get_segment reads the merged directory (segments/) exactly when the
\* job is completed and has an edited range recorded, and the original
\* directory (original/) in every other state; it answers with the file of
\* that name in the directory, and with 404 when the directory has none.
C26_SegmentDirectory ==
    [][(/\ resp' # resp /\ resp'.handler = "get_segment"
        /\ AccessCheck(resp'.job, resp'.caller) = 0) =>
          LET job == Job(resp'.job)
              tree == disk[resp'.job]
              merged == job.status = "completed" /\ Has(job, "edited_segments")
              directory == IF merged THEN tree.segments ELSE tree.original
          IN  IF resp'.seg \in DOMAIN directory
              THEN resp'.code = 200 /\ resp'.file = directory[resp'.seg]
              ELSE resp'.code = 404]_vars
\* an edited segment has been served for a completed job
C26_Witness ==
    /\ resp.handler = "get_segment" /\ resp.code = 200 /\ resp.seen = "completed"
    /\ resp.file = Edited(0)
    /\ resp.seg \in DOMAIN disk[resp.job].original
    /\ disk[resp.job].original[resp.seg] # resp.file
\* C29: each accepted call of start_video_processing adds exactly one job
\* under an id that was not in the registry, with status queued, progress 0
\* and the caller as user_id, answers that id with status queued and the
\* job's playlist URL, and leaves every job already registered unchanged; a
\* resubmission therefore makes another, distinct job.
C29_SubmissionAddsOneJob ==
    [][(/\ resp'.handler = "start_video_processing"
        /\ resp' # resp \/ processing_jobs' # processing_jobs) =>
          LET j == resp'.job IN
          /\ j \notin DOMAIN processing_jobs
          /\ DOMAIN processing_jobs' = (DOMAIN processing_jobs) \cup {j}
          /\ processing_jobs'[j].status = "queued"
          /\ processing_jobs'[j].progress = 0
          /\ processing_jobs'[j].user_id = resp'.caller
          /\ resp'.code = 200
          /\ resp'.json = [job_id |-> j, status |-> "queued", playlist_url |-> j]
          /\ \A x \in DOMAIN processing_jobs : processing_jobs'[x] = processing_jobs[x]
          /\ disk' = disk /\ output_video' = output_video]_vars
\* the request of a completed job has been submitted again and answered
C29_Witness ==
    /\ resp.handler = "start_video_processing"
    /\ Cardinality(DOMAIN processing_jobs) = 2
    /\ \E x \in DOMAIN processing_jobs :
          /\ x # resp.job
          /\ processing_jobs[x].status = "completed"
          /\ processing_jobs[x].user_id = processing_jobs[resp.job].user_id
          /\ processing_jobs[x].video_path = processing_jobs[resp.job].video_path
    /\ processing_jobs[resp.job].status = "queued"
\* the jobs whose worker has written the output video of process_video
WroteOutput(j) == worker[j].result.returned
\* C28: the worker of a job writes files only inside the job's own output
\* directory, and no file path is written by the workers of two jobs, also
\* when both were submitted with the same video_path.
C28_OwnDirectoryOnly ==
    /\ \A v \in Videos : output_video[v] = ""
    /\ \A a, b \in JobIds :
          (a # b /\ WroteOutput(a) /\ WroteOutput(b)) =>
              worker[a].result.output_video # worker[b].result.output_video
\* a job record no transition of which is half applied
Settled(job) ==
    /\ job.status = "completed" => job.progress = 100 /\ Has(job, "completed_at")
    /\ job.status = "failed" => Has(job, "error")
\* C30: a get_processing_status, get_playlist or get_segment request never
\* observes a half-applied transition of a job record: it sees no completed
\* job with progress below 100 or without completed_at and no failed job
\* without its error, and a record it has seen completed or failed is final
\* (segment count and edited range included).
C30_AtomicTransitions ==
    /\ [][(/\ resp' # resp /\ resp'.handler \in Readers /\ resp'.job \in Known) =>
             /\ Settled(Job(resp'.job))
             /\ (resp'.handler = "get_processing_status" /\ resp'.code = 200) =>
                   /\ resp'.json.status = "completed" =>
                         resp'.json.progress = 100 /\ resp'.json.completed_at # "None"
                   /\ resp'.json.status = "failed" => resp'.json.error # "Unknown error"]_vars
    /\ [][(/\ resp.handler \in Readers /\ resp.job \in Known
           /\ resp.seen \in {"completed", "failed"}) =>
             processing_jobs'[resp.job] = processing_jobs[resp.job]]_vars
\* the status of a failed job has been read after its worker recorded the
\* error
C30_Witness ==
    /\ resp.handler = "get_processing_status" /\ resp.code = 200
    /\ resp.json.status = "failed"
    /\ resp.json.error = "Video generation timed out"
    /\ worker[resp.job].pc = "done"
\* C31: job execution runs apart from request handling: while the worker of a
\* job is between its first and its last stage, a status, playlist or segment
\* request (for that job or another) is served without waiting for the worker
\* to finish, so that a status request of the owner can observe processing.
C31_ServedWhileWorkerRuns ==
    \A j \in Running : \A x \in JobIds, u \in Users :
        /\ ENABLED get_processing_status(x, u)
        /\ ENABLED get_playlist(x, u)
        /\ ENABLED get_segment(x, 0, u)
\* C32: every submitted job eventually reaches status completed or failed,
\* provided each single external call returns or raises: no job stays queued
\* or processing forever, whatever the provider answers to the polls.
C32_EveryJobEnds ==
    \A j \in JobIds :
        (j \in Known) ~> (j \in Known /\ Job(j).status \in {"completed", "failed"})
\* C33: for every placement and every original segment count N, the replaced
\* range that process_video_background computes, start_segment =
\* floor(buffer_start / 10) and end_segment = floor(buffer_end / 10) + 1,
\* satisfies 0 <= start_segment < end_segment <= N.
C33_RangeWithinOriginal ==
    \A j \in Known :
        Has(Job(j), "edited_segments") =>
            LET start_segment == Job(j).edited_segments.start
                end_segment == Job(j).edited_segments.end
                N == OriginalCount(j)
            IN  /\ start_segment = start_segment_of(Job(j).placement)
                /\ end_segment = end_segment_of(Job(j).placement)
                /\ 0 <= start_segment
                /\ start_segment < end_segment
                /\ end_segment <= N
\* the instants of the original video, on the grid of TimeStep seconds: the
\* instant t stands for [t, t + TimeStep) and lies in original segment
\* t \div segment_duration
Instants(j) == {t \in Times : t \div segment_duration \in DOMAIN disk[j].original}
\* the instant is still in the merged sequence: the original segment that
\* holds it is one of the files of segments/
StillPresent(j, t) ==
    \E k \in DOMAIN disk[j].segments :
        disk[j].segments[k] = disk[j].original[t \div segment_duration]
\* C34: the splice removes original material only inside the buffer window:
\* every instant of the original video outside [buffer_start, buffer_end) is
\* still present in the merged segment sequence, also when the ends of the
\* window do not fall on 10-second segment boundaries.
C34_OnlyWindowRemoved ==
    \A j \in JobIds :
        Spliced(j) =>
            LET buffer_start == timestamp_to_seconds(Job(j).placement.buffer_start)
                buffer_end == timestamp_to_seconds(Job(j).placement.buffer_end)
            IN  \A t \in Instants(j) :
                    (t * 1000 < buffer_start \/ t * 1000 >= buffer_end) => StillPresent(j, t)
\* the segments listed by the processing view of job j that was last served
\* (get_playlist leaves it in playlist_temp.m3u8)
ListedSegments(j) ==
    {disk[j].playlist_temp[k].n : k \in {x \in DOMAIN disk[j].playlist_temp :
                                            IsSegmentLine(disk[j].playlist_temp[x])}}
\* C35: a segment URI listed in a processing-view playlist that was served
\* before the job completed is still answered with a segment (not 404) by
\* get_segment when it is requested after the job has completed, for every
\* edited segment count K.
C35_ListedSegmentsStayServed ==
    [][(/\ resp' # resp /\ resp'.handler = "get_segment" /\ resp'.seen = "completed"
        /\ resp'.caller = Job(resp'.job).user_id
        /\ resp'.seg \in ListedSegments(resp'.job)) => resp'.code = 200]_vars
\* a processing view of a job was served and the job has completed since
C35_Precondition ==
    \E j \in Known : Job(j).status = "completed" /\ ListedSegments(j) # {}
\* the lines of a playlist that do not start with #
UriLines(lines) == {k \in DOMAIN lines : lines[k].t \in {"file", "api"}}
\* C36: the processing-view rewrite of get_playlist keeps the number and the
\* order of the original playlist's lines, leaves every line starting with #
\* unchanged and replaces every segment URI line by
\* /api/v1/videos/segments/<job_id>/<basename of the URI>: no segment line is
\* left pointing outside the segments endpoint.
C36_RewriteKeepsShape ==
    (resp.handler = "get_playlist" /\ resp.code = 200 /\ resp.seen # "completed") =>
        LET orig == disk[resp.job].original_m3u8
            body == resp.body
        IN  /\ Len(body) = Len(orig)
            /\ UriLines(body) = UriLines(orig)
            /\ \A k \in DOMAIN orig \ UriLines(orig) : body[k] = orig[k]
            /\ \A k \in UriLines(orig) :
                  /\ body[k].t = "api"
                  /\ body[k].job = resp.job
                  /\ body[k].n = orig[k].n
            /\ disk[resp.job].playlist_temp = body
\* the original playlist of a job with two or more segments has been rewritten
C36_Witness ==
    /\ resp.handler = "get_playlist" /\ resp.code = 200 /\ resp.seen # "completed"
    /\ Cardinality(UriLines(disk[resp.job].original_m3u8)) >= 2
    /\ \E k \in UriLines(resp.body) : resp.body[k] = ApiLine(resp.job, 1)
\* the position (1-based) in the transcript of the cue a summary line was
\* taken from
CueOf(line) == line.text
\* C37: get_transcript_summary returns every cue when the cue count n is at
\* most the cap; otherwise it returns at most cap lines, taken at every
\* floor(n / cap)-th cue, spread evenly over the whole transcript: the last
\* sampled cue lies within one step of the last cue, for every n > cap.
C37_SummarySpreadEvenly ==
    summary.pc = "returned" =>
        LET n == Len(summary.entries)
            cap == summary.max_entries
            lines == summary.lines
            step == n \div cap
        IN  /\ n <= cap => lines = get_full_transcript(summary.entries)
            /\ n > cap =>
                  /\ Len(lines) >= 1 /\ Len(lines) <= cap
                  /\ \A k \in 1..Len(lines) : CueOf(lines[k]) = (k - 1) * step + 1
                  /\ n - CueOf(lines[Len(lines)]) <= step
\* the response chat returned does not parse as JSON
Malformed(o) == o.chat_calls >= 1 /\ o.exc.kind # "APIError" /\ ~IsJson(o.response)
\* the {...} substring of the response does not exist or does not parse
RecoveryFails(o) == re_search(o.response) = <<>> \/ ~IsJson(re_search(o.response))
\* C38: for every task method of GrokClient a malformed response leads to
\* exactly one recovery attempt on the same response text (the extraction of a
\* {...} substring) and to no second call of the oracle; when the recovery
\* attempt fails too, the method fails with a parse error and returns no
\* result.
C38_OneRecoveryAttempt ==
    (oracle.pc # "idle" /\ oracle.method \in TaskMethods) =>
        /\ oracle.chat_calls = 1
        /\ Malformed(oracle) =>
              /\ oracle.searched = <<oracle.response>>
              /\ RecoveryFails(oracle) =>
                    /\ oracle.pc = "raised"
                    /\ oracle.exc.kind \in {"ValueError", "JSONDecodeError"}
                    /\ oracle.result = <<>>
              /\ ~RecoveryFails(oracle) =>
                    oracle.pc = "returned" /\ oracle.result = <<re_search(oracle.response)>>
        /\ ~Malformed(oracle) => oracle.searched = <<>>
\* a response with a {...} substring that does not parse has made a task
\* method fail
C38_Witness ==
    /\ oracle.pc = "raised" /\ oracle.method = "analyze_user_demographics"
    /\ Malformed(oracle)
    /\ re_search(oracle.response) # <<>>
    /\ oracle.exc.kind = "JSONDecodeError"
\* C39: the request handlers get_processing_status, get_playlist and
\* get_segment never add, remove or modify an entry or a field of the job
\* registry: for every request and every outcome (200, 403, 404) the registry
\* after the request equals the registry before it.
C39_ReadersKeepRegistry ==
    [][(resp' # resp /\ resp'.handler \in Readers) =>
          /\ resp'.code \in {200, 403, 404}
          /\ DOMAIN processing_jobs' = DOMAIN processing_jobs
          /\ \A j \in DOMAIN processing_jobs : processing_jobs'[j] = processing_jobs[j]]_vars
\* the playlist of a completed job has been generated, written and served
C39_Witness ==
    /\ resp.handler = "get_playlist" /\ resp.code = 200 /\ resp.seen = "completed"
    /\ disk[resp.job].segments_m3u8 = resp.body
    /\ Has(Job(resp.job), "completed_at")
\* the segment lines of a playlist, in order
SegmentLinesOf(body) ==
    LET IsUri(l) == IsSegmentLine(l) IN SelectSeq(body, IsUri)
\* C40: for a completed job the completed-view playlist lists exactly
\* hls_info.segment_count segments, segment000 .. segment(count-1) in
\* increasing index order, and ends with EXT-X-ENDLIST; repeated get_playlist
\* requests on the completed job return the same content.
C40_CompletedViewListsAll ==
    /\ [](( /\ resp.handler = "get_playlist" /\ resp.code = 200
            /\ resp.seen = "completed") =>
             LET count == Job(resp.job).hls_info.segment_count
                 listed == SegmentLinesOf(resp.body)
             IN  /\ Len(listed) = count
                 /\ \A k \in 1..Len(listed) : listed[k] = ApiLine(resp.job, k - 1)
                 /\ resp.body[Len(resp.body)] = Tag("#EXT-X-ENDLIST"))
    /\ [][( /\ resp'.handler = "get_playlist" /\ resp'.code = 200
            /\ resp'.seen = "completed"
            /\ disk[resp'.job].segments_m3u8 # <<>>) =>
             resp'.body = disk[resp'.job].segments_m3u8]_vars
====
